---- MODULE Spec2Model ----
(***************************************************************************)
(* A model of libredesk's SLA engine (internal/sla/sla.go), of the         *)
(* start-up / shutdown sequence of cmd/main.go that runs and joins it, and *)
(* of the conversation store and its action executor                       *)
(* (internal/conversation/conversation.go).                                *)
(*                                                                         *)
(* Time is a small integer clock (one unit = one minute).  0 stands for    *)
(* the zero time.Time and for a NULL (invalid null.Time) timestamp; real   *)
(* instants are 1..MaxTime.                                                *)
(***************************************************************************)
EXTENDS Integers, Sequences, FiniteSets, TLC

\* ---------------------------------------------------------------- bounds
\* Last instant of the model clock.
MaxTime == 3
\* Number of conversations (each can have one AppliedSLA row).
NumConv == 2
\* Longest policy duration, in minutes.
MaxDur == 1
\* Number of statements the store fails while the database is open.
MaxStoreErrors == 1
\* Number of inbound messages the channel adapters deliver.
MaxDeliveries == 3
\* The longest duration, in clock units, a deadline is projected for.
MaxMinutes == 4
\* The longest policy duration written in seconds, in half minutes.
MaxHalfMinutes == 5

Conversations == 1..NumConv
Times == 1..MaxTime

\* ------------------------------------------------------------ program text
SLATypeFirstResponse == "first_response"
SLATypeResolution == "resolution"
SLATypes == {SLATypeFirstResponse, SLATypeResolution}

\* time.Time.IsZero / null.Time.Valid / time.Time.After
IsZero(t) == t = 0
Valid(t) == t # 0
After(a, b) == a > b

\* An SLA policy's duration string: <<>> is the empty string, <<n>> is the
\* string "nm" of n minutes and <<n, "s">> the string "ns" of n seconds.
\* The policies of the store are written in minutes; SecondDurations are
\* the strings written in seconds.
SecondDurations == {<<30 * k, "s">> : k \in 0..MaxHalfMinutes}
Durations == {<<>>} \cup {<<n>> : n \in 0..MaxDur}
Policies == [FirstResponseTime : Durations, ResolutionTime : Durations]

\* models.Status*: the names of the conversation statuses.
StatusOpen == "Open"
StatusSnoozed == "Snoozed"
StatusResolved == "Resolved"
StatusClosed == "Closed"
Statuses == {StatusOpen, StatusSnoozed, StatusResolved, StatusClosed}

\* strconv.Atoi on the strings the model uses: the decimal numerals give
\* their number, every other string gives 0 (the error is dropped by the
\* callers).
Numerals == <<"1", "2", "3", "4">>
Atoi(str) ==
    IF \E n \in DOMAIN Numerals : Numerals[n] = str
    THEN CHOOSE n \in DOMAIN Numerals : Numerals[n] = str
    ELSE 0

\* Timezones, named by their offset from UTC in clock units; "" is unset.
Timezones == {"UTC", "UTC+1"}
TzOffset(timezone) == IF timezone = "UTC+1" THEN 1 ELSE 0

\* businessHrsStore.Get: calendar 1 is always open, calendar 2 is open in
\* every second unit of local time; no other calendar exists.
BusinessHoursIds == {1, 2}
BusinessHours(id) == [IsAlwaysOpen |-> id = 1, Hours |-> <<TRUE, FALSE>>]

\* The teams, and what a team row and the app settings can hold.
Teams == {1}
TeamRows == [BusinessHoursID : {0} \cup BusinessHoursIds,
             Timezone : {""} \cup Timezones]
AppSettings == [business_hours_id : {"", "1", "2"},
                timezone : {""} \cup Timezones]

\* The configuration the SLA sweep is modelled under: no team override, and
\* app defaults naming the always-open calendar.
DefaultTeams == [t \in Teams |-> [BusinessHoursID |-> 0, Timezone |-> ""]]
DefaultSettings == [business_hours_id |-> "1", timezone |-> "UTC"]

VARIABLES
    now,        \* the wall clock (time.Now / SQL NOW())
    conv,       \* conversations: first_reply_at, resolved_at, next_sla_deadline_at
    applied,    \* applied_slas table, one row per conversation
    runPc,      \* position of the goroutine started by `go sla.Run(ctx)`
    batch,      \* pendingSLAs fetched by the sweep in progress (snapshots)
    idx,        \* index of the range loop over pendingSLAs
    ctxDone,    \* the shared cancellation signal (ctx.Done() closed)
    mainPc,     \* position of main() in its shutdown sequence
    wg,         \* Manager.wg counter
    lastOp,     \* the store statement issued by the last step (observation)
    evaluated,  \* ids for which this sweep called evaluateSLA (observation)
    finished,   \* ids for which that evaluateSLA call returned (observation)
    failed,     \* ids for which it returned an error (observation)
    cancelAt,   \* what Run was doing when ctx was cancelled (observation)
    errs,       \* number of statements the open database has failed
    teams,      \* teams table: business_hours_id and timezone of each team
    settings,   \* app settings: app.business_hours_id and app.timezone
    call,       \* what the API call made by the last step did (observation)
    messages,   \* inbound Message rows: how many rows each (inbox, source id) has
    incomingMessageQueue,   \* the incoming queue (a buffered channel)
    inWorker,   \* each incoming worker: its position and the message it holds
    delivered,  \* the inbound messages delivered so far, in order (observation)
    outStatus,  \* outgoing messages: the status of each message id
    outgoingMessageQueue,   \* the outgoing queue (a buffered channel)
    outgoingProcessingMessages, \* the ids of the outgoing messages in flight
    outWorker   \* each outgoing worker: its position and the id it holds

\* The variables of the store and the SLA engine, of the incoming pipeline
\* and of the outgoing one.
coreVars == <<now, conv, applied, runPc, batch, idx, ctxDone, mainPc, wg,
              lastOp, evaluated, finished, failed, cancelAt, errs,
              teams, settings, call>>
inVars == <<messages, incomingMessageQueue, inWorker, delivered>>
outVars == <<outStatus, outgoingMessageQueue, outgoingProcessingMessages, outWorker>>
pipeVars == <<inVars, outVars>>

vars == <<coreVars, pipeVars>>

envVars == <<now, conv, errs>>
runVars == <<runPc, batch, idx, evaluated, finished, failed>>
mainVars == <<ctxDone, mainPc, wg, cancelAt>>
cfgVars == <<teams, settings>>

NoRow == [present |-> FALSE,
          first_response_deadline_at |-> 0, resolution_deadline_at |-> 0,
          first_response_met_at |-> 0, first_response_breached_at |-> 0,
          resolution_met_at |-> 0, resolution_breached_at |-> 0,
          status |-> "pending"]

NoOp == [op |-> "none", id |-> 0, type |-> "", ok |-> TRUE]

\* The message pipeline: inboxes, the source ids channels give to messages,
\* the ids of outgoing messages, the worker pools and the queue capacity.
Inboxes == {1, 2}
SourceIds == {"a", "b"}
DedupKeys == Inboxes \X SourceIds
MsgIds == {1, 2}
IncomingWorkers == {1, 2}
OutgoingWorkers == {1, 2}
QueueSize == 2
Idle == [pc |-> "idle", inbox |-> 0, source |-> "", id |-> 0]

\* The pipeline after New: empty queues, no message, idle workers.
InitPipeline ==
    /\ messages = [k \in DedupKeys |-> 0]
    /\ incomingMessageQueue = <<>>
    /\ inWorker = [w \in IncomingWorkers |-> Idle]
    /\ delivered = [k \in DedupKeys |-> 0]
    /\ outStatus = [m \in MsgIds |-> "none"]
    /\ outgoingMessageQueue = <<>>
    /\ outgoingProcessingMessages = {}
    /\ outWorker = [w \in OutgoingWorkers |-> Idle]

\* A conversation as CreateConversation inserts it: status Open, nothing
\* assigned, no timestamps.
NewConversation ==
    [first_reply_at |-> 0, resolved_at |-> 0, next_sla_deadline_at |-> 0,
     status |-> StatusOpen, snoozed_until |-> 0,
     assigned_user_id |-> 0, assigned_team_id |-> 0,
     priority |-> "", assignee_last_seen_at |-> 0, tags |-> <<>>]

\* What an API call did: its arguments, the team id it was given (Manager.ApplySLA of the
\* SLA engine), the error it returned ("" for nil), the activity
\* entries it recorded, the property updates it broadcast, the notification
\* sends it attempted, how its notification email went ("sent", "failed" or
\* "" for none) and the system-user lookups it made.  names and wraps are
\* what the text of an error of ApplyAction holds: the action type it names
\* and the error it wraps.  tx counts the database transactions begun and
\* selects the list queries run; msg is the message of the error returned
\* by a list request.
NoCall == [op |-> "none", id |-> 0, args |-> <<>>, team |-> 0,
           err |-> "", persisted |-> FALSE, mail |-> "",
           activity |-> <<>>, broadcast |-> <<>>, sends |-> 0, lookups |-> 0,
           names |-> "", wraps |-> "", tx |-> 0, selects |-> 0, msg |-> "",
           deadline |-> [start |-> 0, minutes |-> 0, timezone |-> "", at |-> 0,
                         bh |-> [IsAlwaysOpen |-> FALSE, Hours |-> <<>>]]]

Init ==
    /\ now = 1
    /\ conv = [c \in Conversations |-> NewConversation]
    /\ teams = DefaultTeams
    /\ settings = DefaultSettings
    /\ call = NoCall
    /\ applied = [c \in Conversations |-> NoRow]
    /\ runPc = "spawned"
    /\ batch = <<>>
    /\ idx = 1
    /\ ctxDone = FALSE
    /\ mainPc = "serving"
    /\ wg = 0
    /\ lastOp = NoOp
    /\ evaluated = {}
    /\ finished = {}
    /\ failed = {}
    /\ cancelAt = ""
    /\ errs = 0
    /\ InitPipeline

\* ------------------------------------------------------ deadline computation
\* A unit of the clock is open business time in a calendar and timezone.
IsOpen(t, businessHrs, timezone) ==
    \/ businessHrs.IsAlwaysOpen
    \/ businessHrs.Hours[((t + TzOffset(timezone)) % Len(businessHrs.Hours)) + 1]

\* The walk of Manager.CalculateDeadline: the instant at which `minutes` of
\* open time have elapsed since t.
WalkOpen_WallClock(t, minutes, businessHrs, timezone) == t + minutes

RECURSIVE WalkOpen(_, _, _, _)
WalkOpen(t, minutes, businessHrs, timezone) ==
    IF ~IsOpen(t, businessHrs, timezone)
    THEN WalkOpen(t + 1, minutes, businessHrs, timezone)
    ELSE IF minutes = 0 THEN t
    ELSE IF minutes = 1 THEN t + 1
    ELSE WalkOpen(t + 1, minutes - 1, businessHrs, timezone)

\* Manager.CalculateDeadline: start + minutes of wall-clock time for an
\* always-open calendar, else a walk over the open time (spec 4.1).
CalculateDeadline(startTime, minutes, businessHrs, timezone) ==
    IF businessHrs.IsAlwaysOpen THEN startTime + minutes
    ELSE WalkOpen(startTime, minutes, businessHrs, timezone)

NotConfiguredError == "business hours or timezone not configured"

\* Mutant of NotConfigured: the test joined with "and" instead of "or".
NotConfigured_And(businessHrsID, timezone) == businessHrsID = 0 /\ timezone = ""

\* The last test of getBusinessHoursAndTimezone: the calendar id or the
\* timezone is still missing after the fallback.
NotConfigured(businessHrsID, timezone) == businessHrsID = 0 \/ timezone = ""

\* Mutant of NeedsAppDefaults: the app settings are read only when the team
\* gave neither a calendar id nor a timezone.
NeedsAppDefaults_And(businessHrsID, timezone) == businessHrsID = 0 /\ timezone = ""

\* The test in front of the fallback: the team did not give both a calendar
\* id and a timezone, so the app settings are read.
NeedsAppDefaults(businessHrsID, timezone) == businessHrsID = 0 \/ timezone = ""

\* Manager.getBusinessHoursAndTimezone: the team's calendar and timezone when
\* a team is given and has both, else the app settings' pair; an error when
\* a store fails (fail is the set of failing collaborators and statements)
\* or nothing is configured.
getBusinessHoursAndTimezone(assignedTeamID, fail) ==
    LET fromTeam == assignedTeamID # 0
        teamErr == fromTeam /\ ("teamStore" \in fail \/ assignedTeamID \notin Teams)
        teamID == IF fromTeam /\ ~teamErr
                  THEN teams[assignedTeamID].BusinessHoursID ELSE 0
        teamTz == IF fromTeam /\ ~teamErr
                  THEN teams[assignedTeamID].Timezone ELSE ""
        useApp == NeedsAppDefaults(teamID, teamTz)
        businessHrsID == IF useApp THEN Atoi(settings.business_hours_id) ELSE teamID
        timezone == IF useApp THEN settings.timezone ELSE teamTz
        none == [IsAlwaysOpen |-> FALSE, Hours |-> <<>>]
    IN  IF teamErr
        THEN [err |-> "team store", bh |-> none, timezone |-> ""]
        ELSE IF useApp /\ "appSettingsStore" \in fail
        THEN [err |-> "settings store", bh |-> none, timezone |-> ""]
        ELSE IF NotConfigured(businessHrsID, timezone)
        THEN [err |-> NotConfiguredError, bh |-> none, timezone |-> ""]
        ELSE IF "businessHrsStore" \in fail \/ businessHrsID \notin BusinessHoursIds
        THEN [err |-> "business hours not found", bh |-> none, timezone |-> ""]
        ELSE [err |-> "", bh |-> BusinessHours(businessHrsID), timezone |-> timezone]

\* time.ParseDuration on a policy's duration string: the duration, in
\* seconds.
PolicyDuration(durationStr) ==
    IF Len(durationStr) = 2 THEN durationStr[1] ELSE 60 * durationStr[1]

\* int(dur.Minutes()): the whole minutes of a duration; the conversion to
\* int drops the fraction.
Minutes(dur) == dur \div 60

\* The closure calculateDeadline of Manager.CalculateDeadlines: an empty
\* duration string gives the zero time, otherwise the calendar deadline of
\* the duration's whole minutes.
calculateDeadline(startTime, durationStr, businessHrs, timezone) ==
    IF durationStr = <<>> THEN 0
    ELSE CalculateDeadline(startTime, Minutes(PolicyDuration(durationStr)),
                           businessHrs, timezone)

\* Manager.CalculateDeadlines: resolve the calendar, fetch the policy (sla is
\* the fetched policy) and compute both deadlines.
CalculateDeadlines(startTime, sla, assignedTeamID, fail) ==
    LET cfg == getBusinessHoursAndTimezone(assignedTeamID, fail) IN
    IF cfg.err # ""
    THEN [err |-> cfg.err, FirstResponse |-> 0, Resolution |-> 0]
    ELSE IF "get-sla-policy" \in fail
    THEN [err |-> "Error fetching SLA", FirstResponse |-> 0, Resolution |-> 0]
    ELSE [err |-> "",
          FirstResponse |-> calculateDeadline(startTime, sla.FirstResponseTime,
                                              cfg.bh, cfg.timezone),
          Resolution |-> calculateDeadline(startTime, sla.ResolutionTime,
                                           cfg.bh, cfg.timezone)]

\* ------------------------------------------------------------ store queries
\* apply-sla: insert the AppliedSLA row of a conversation.
ApplySLAQuery(tbl, conversationID, deadlines) ==
    [tbl EXCEPT ![conversationID] =
        [NoRow EXCEPT !.present = TRUE,
                      !.first_response_deadline_at = deadlines.FirstResponse,
                      !.resolution_deadline_at = deadlines.Resolution]]

\* A metric of a row is still pending: neither met_at nor breached_at is set.
MetricPending(row, type) ==
    IF type = SLATypeFirstResponse
    THEN row.first_response_met_at = 0 /\ row.first_response_breached_at = 0
    ELSE row.resolution_met_at = 0 /\ row.resolution_breached_at = 0

\* get-pending-slas: every AppliedSLA still pending on at least one metric,
\* joined with its conversation's first-reply and resolved timestamps.
Snapshot(c) ==
    [id |-> c,
     conversation_id |-> c,
     first_response_deadline_at |-> applied[c].first_response_deadline_at,
     resolution_deadline_at |-> applied[c].resolution_deadline_at,
     first_response_met_at |-> applied[c].first_response_met_at,
     first_response_breached_at |-> applied[c].first_response_breached_at,
     resolution_met_at |-> applied[c].resolution_met_at,
     resolution_breached_at |-> applied[c].resolution_breached_at,
     conversation_first_response_at |-> conv[c].first_reply_at,
     conversation_resolved_at |-> conv[c].resolved_at]

PendingIds ==
    {c \in Conversations :
        /\ applied[c].present
        /\ \E type \in SLATypes : MetricPending(applied[c], type)}

RECURSIVE SnapshotsFrom(_)
SnapshotsFrom(c) ==
    IF c > NumConv THEN <<>>
    ELSE IF c \in PendingIds THEN <<Snapshot(c)>> \o SnapshotsFrom(c + 1)
    ELSE SnapshotsFrom(c + 1)

GetPendingSLAs == SnapshotsFrom(1)

\* update-breach / update-met: stamp NOW() on the named metric of row id.
UpdateBreach(tbl, id, type, t) ==
    IF type = SLATypeFirstResponse
    THEN [tbl EXCEPT ![id].first_response_breached_at = t]
    ELSE [tbl EXCEPT ![id].resolution_breached_at = t]

UpdateMet(tbl, id, type, t) ==
    IF type = SLATypeFirstResponse
    THEN [tbl EXCEPT ![id].first_response_met_at = t]
    ELSE [tbl EXCEPT ![id].resolution_met_at = t]

\* set-next-sla-deadline: the earliest deadline among the tracked metrics of
\* the row that are still pending; NULL (0) when there is none.
OpenDeadlines(row) ==
    {d \in {IF MetricPending(row, SLATypeFirstResponse)
               THEN row.first_response_deadline_at ELSE 0,
            IF MetricPending(row, SLATypeResolution)
               THEN row.resolution_deadline_at ELSE 0} : d # 0}

NextSLADeadline(row) ==
    IF OpenDeadlines(row) = {} THEN 0
    ELSE CHOOSE d \in OpenDeadlines(row) : \A e \in OpenDeadlines(row) : d <= e

\* update-sla-status: the overall status from the four metric timestamps.
SLAStatus(row) ==
    LET frMet == row.first_response_met_at # 0
        frBr == row.first_response_breached_at # 0
        resMet == row.resolution_met_at # 0
        resBr == row.resolution_breached_at # 0
        frOk == row.first_response_deadline_at = 0 \/ frMet
        resOk == row.resolution_deadline_at = 0 \/ resMet
    IN  IF ~(frMet \/ frBr \/ resMet \/ resBr) THEN "pending"
        ELSE IF frOk /\ resOk THEN "met"
        ELSE IF frMet \/ resMet THEN "partially_met"
        ELSE "breached"

\* ------------------------------------------------------------- evaluateSLA
\* Mutant of NeedsCheck: the guard joined with "or" instead of "and".
NeedsCheck_Or(breachedAt, metAt) == ~Valid(breachedAt) \/ ~Valid(metAt)

\* Mutant of NeedsCheck: only the breach timestamp is looked at.
NeedsCheck_BreachOnly(breachedAt, metAt) == ~Valid(breachedAt)

\* The guard in front of each checkDeadline call: the metric is neither
\* breached nor met in the fetched row.
NeedsCheck(breachedAt, metAt) == ~Valid(breachedAt) /\ ~Valid(metAt)

\* Mutant of checkDeadline: the clock is compared before the completion
\* timestamp is looked at.
checkDeadline_ClockFirst(deadline, metAt, t) ==
    IF IsZero(deadline) THEN "none"
    ELSE IF After(t, deadline) THEN "breach"
    ELSE IF Valid(metAt)
         THEN IF After(metAt, deadline) THEN "breach" ELSE "met"
    ELSE "none"

\* Mutant of checkDeadline: the deadline and the clock are swapped in the
\* comparison of the missed-deadline branch.
checkDeadline_Swapped(deadline, metAt, t) ==
    IF IsZero(deadline) THEN "none"
    ELSE IF ~Valid(metAt) /\ After(deadline, t) THEN "breach"
    ELSE IF Valid(metAt)
         THEN IF After(metAt, deadline) THEN "breach" ELSE "met"
    ELSE "none"

\* Mutant of checkDeadline: the zero-deadline test is missing.
checkDeadline_NoZeroTest(deadline, metAt, t) ==
    IF ~Valid(metAt) /\ After(t, deadline) THEN "breach"
    ELSE IF Valid(metAt)
         THEN IF After(metAt, deadline) THEN "breach" ELSE "met"
    ELSE "none"

\* Mutant of checkDeadline: the missed-deadline branch is missing, so a metric
\* is decided only once the conversation has a completion timestamp.
checkDeadline_NoTimeout(deadline, metAt, t) ==
    IF IsZero(deadline) THEN "none"
    ELSE IF Valid(metAt)
         THEN IF After(metAt, deadline) THEN "breach" ELSE "met"
    ELSE "none"

\* Mutant of checkDeadline: a metric is breached at its deadline already.
checkDeadline_AtDeadline(deadline, metAt, t) ==
    IF IsZero(deadline) THEN "none"
    ELSE IF ~Valid(metAt) /\ ~After(deadline, t) THEN "breach"
    ELSE IF Valid(metAt)
         THEN IF After(metAt, deadline) THEN "breach" ELSE "met"
    ELSE "none"

\* The closure checkDeadline: which update, if any, it issues.
checkDeadline(deadline, metAt, t) ==
    IF IsZero(deadline) THEN "none"
    ELSE IF ~Valid(metAt) /\ After(t, deadline) THEN "breach"
    ELSE IF Valid(metAt)
         THEN IF After(metAt, deadline) THEN "breach" ELSE "met"
    ELSE "none"

\* Mutant of AfterEvaluate: the error of evaluateSLA is returned, which ends
\* the sweep.
AfterEvaluate_Return(err) == IF err THEN "select" ELSE "loop"

\* What the range loop does when evaluateSLA has returned: an error is
\* logged, and the loop goes on with the next row either way.
AfterEvaluate(err) == "loop"

\* Mutant of AfterCheck: evaluateSLA returns as soon as a metric is breached.
AfterCheck_StopOnBreach(err, outcome, nextPc) ==
    IF err \/ outcome = "breach" THEN AfterEvaluate(TRUE) ELSE nextPc

\* What evaluateSLA does after a checkDeadline call: return the error, or go
\* on to the next statement.
AfterCheck(err, outcome, nextPc) == IF err THEN AfterEvaluate(TRUE) ELSE nextPc

\* Mutant of SelectReady: cancellation preempts Run wherever it is.
SelectReady_Preempt(pc) == pc \notin {"spawned", "returned"}

\* Where Run looks at ctx.Done(): at its select only.
SelectReady(pc) == pc = "select"

\* The outcomes a store statement can have: the open database may fail a
\* statement (at most MaxStoreErrors times in a run of the model), and a
\* closed database fails every statement.
StoreOk ==
    IF mainPc = "dbClosed" THEN {FALSE}
    ELSE IF errs < MaxStoreErrors THEN {TRUE, FALSE}
    ELSE {TRUE}

\* A statement was executed with outcome ok: count a failure of the open
\* database.
Executed(ok) == errs' = IF ok \/ mainPc = "dbClosed" THEN errs ELSE errs + 1

\* ------------------------------------------------------------- environment
\* Wall-clock time passes.
ClockTick ==
    /\ now < MaxTime
    /\ now' = now + 1
    /\ lastOp' = NoOp
    /\ call' = NoCall
    /\ UNCHANGED <<cfgVars, pipeVars, conv, applied, runVars, mainVars, errs>>

\* The first reply to a conversation is recorded (first_reply_at is set once).
\* Requests are served until the shutdown signal.
FirstReply(c) ==
    /\ mainPc = "serving"
    /\ conv[c].first_reply_at = 0
    /\ conv' = [conv EXCEPT ![c].first_reply_at = now]
    /\ lastOp' = NoOp
    /\ call' = NoCall
    /\ UNCHANGED <<cfgVars, pipeVars, now, applied, runVars, mainVars, errs>>

\* A conversation is resolved (resolved_at is set).
Resolve(c) ==
    /\ mainPc = "serving"
    /\ conv[c].resolved_at = 0
    /\ conv' = [conv EXCEPT ![c].resolved_at = now]
    /\ lastOp' = NoOp
    /\ call' = NoCall
    /\ UNCHANGED <<cfgVars, pipeVars, now, applied, runVars, mainVars, errs>>

\* The sets of failures one call can meet.  OneFailure: nothing fails, or one
\* statement or collaborator does.  FailSets: in addition, a collaborator
\* whose error the handler only logs fails together with a later statement.
OneFailure(points) == {{}} \cup {{p} : p \in points}
FailSets(statements, logged) ==
    OneFailure(statements \cup logged) \cup {{p, q} : p \in statements, q \in logged}

\* The collaborators of Manager.ApplySLA that can fail, and its statements.
SLAStoreFails == {"teamStore", "appSettingsStore", "businessHrsStore"}
SLAStatementFails == {"get-sla-policy", "apply-sla", "get-sla-policy-after"}

\* Manager.ApplySLA as a function of the state: the error it returns, the
\* applied_slas table it leaves, the last statement it issued and whether a
\* statement failed.  fail is the set of collaborators and statements that
\* fail if the call gets to them.
ApplySLAResult(startTime, conversationID, assignedTeamID, sla, fail) ==
    LET deadlines == CalculateDeadlines(startTime, sla, assignedTeamID, fail) IN
    IF deadlines.err # ""
    THEN [err |-> deadlines.err, applied |-> applied, deadlines |-> deadlines,
          stmt |-> IF deadlines.err = "Error fetching SLA"
                   THEN [op |-> "get-sla-policy", id |-> conversationID,
                         type |-> "", ok |-> FALSE]
                   ELSE NoOp,
          dbErr |-> deadlines.err = "Error fetching SLA"]
    ELSE IF "apply-sla" \in fail
    THEN [err |-> "Error applying SLA", applied |-> applied, deadlines |-> deadlines,
          stmt |-> [op |-> "apply-sla", id |-> conversationID, type |-> "", ok |-> FALSE],
          dbErr |-> TRUE]
    ELSE [err |-> IF "get-sla-policy-after" \in fail THEN "Error fetching SLA" ELSE "",
          applied |-> ApplySLAQuery(applied, conversationID, deadlines),
          deadlines |-> deadlines,
          stmt |-> IF "get-sla-policy-after" \in fail
                   THEN [op |-> "get-sla-policy", id |-> conversationID,
                         type |-> "", ok |-> FALSE]
                   ELSE [op |-> "apply-sla", id |-> conversationID,
                         type |-> "", ok |-> TRUE],
          dbErr |-> "get-sla-policy-after" \in fail]

\* Manager.ApplySLA called by a request.  The model clock is capped: only
\* deadlines the clock can pass are applied.
ApplySLA(startTime, conversationID, assignedTeamID, sla) ==
    /\ mainPc = "serving"
    /\ ~applied[conversationID].present
    /\ \E fail \in OneFailure(SLAStatementFails \cup SLAStoreFails) :
        LET r == ApplySLAResult(startTime, conversationID, assignedTeamID, sla, fail) IN
        /\ r.dbErr => FALSE \in StoreOk
        /\ r.deadlines.FirstResponse < MaxTime
        /\ r.deadlines.Resolution < MaxTime
        /\ applied' = r.applied
        /\ lastOp' = r.stmt
        /\ call' = [NoCall EXCEPT !.op = "sla.ApplySLA", !.id = conversationID,
                                  !.team = assignedTeamID,
                                  !.err = r.err, !.persisted = r.applied # applied]
        /\ Executed(~r.dbErr)
    /\ UNCHANGED <<cfgVars, pipeVars, now, conv, runVars, mainVars>>

\* ------------------------------------------------------ conversation store
\* The users: userStore.GetSystemUser gives the system user; the agents are
\* the users a conversation is assigned to and who act on it.  Actor 0 is
\* the zero umodels.User.
SystemUserID == 1
Agents == {2, 3}
Actors == {0} \cup Agents

\* statusStore.Get / priorityStore.Get: the name of a status or priority id.
StatusNames == <<StatusOpen, StatusSnoozed, StatusResolved, StatusClosed>>
PriorityNames == <<"Low", "High">>

\* time.ParseDuration on the snooze strings the model uses: "1m" and "2m"
\* parse to their minutes, every other string (also "") is an error.
DurationStrings == <<"1m", "2m">>
SnoozeDurs == {"", "x", "1m", "2m"}
ParseDuration(str) ==
    IF \E n \in DOMAIN DurationStrings : DurationStrings[n] = str
    THEN [err |-> FALSE,
          minutes |-> CHOOSE n \in DOMAIN DurationStrings : DurationStrings[n] = str]
    ELSE [err |-> TRUE, minutes |-> 0]

\* The kinds of error a store call returns: envelope.InputError,
\* envelope.GeneralError, or a plain Go error.
InputError == "input"
GeneralError == "general"
PlainError == "error"

\* What a store call leaves: the tables, the call's record and whether one of
\* its statements failed.
Result(cv, ap, cl, dbErr) ==
    [conv |-> cv, applied |-> ap, call |-> cl, dbErr |-> dbErr, stmt |-> NoOp]

\* A call that returned err before it changed or announced anything.
Rejected(op, c, err, dbErr) ==
    Result(conv, applied, [NoCall EXCEPT !.op = op, !.id = c, !.err = err], dbErr)

\* An activity entry (Record*Change / RecordSLASet) and a property update
\* (BroadcastConversationUpdate).
Activity(type, value, actor) == [type |-> type, value |-> value, actor |-> actor]
Update(prop, value) == [prop |-> prop, value |-> value]

\* Mutant of UpdateConversationAssigneeLastSeenResult: the update is not
\* broadcast.
UpdateConversationAssigneeLastSeenResult_NoBroadcast(c, fail) ==
    LET op == "UpdateConversationAssigneeLastSeen" IN
    IF "update-conversation-assignee-last-seen" \in fail
    THEN Rejected(op, c, GeneralError, TRUE)
    ELSE Result([conv EXCEPT ![c].assignee_last_seen_at = now], applied,
                [NoCall EXCEPT !.op = op, !.id = c, !.persisted = TRUE],
                FALSE)

\* Manager.UpdateConversationAssigneeLastSeen
UpdateConversationAssigneeLastSeenResult(c, fail) ==
    LET op == "UpdateConversationAssigneeLastSeen" IN
    IF "update-conversation-assignee-last-seen" \in fail
    THEN Rejected(op, c, GeneralError, TRUE)
    ELSE Result([conv EXCEPT ![c].assignee_last_seen_at = now], applied,
                [NoCall EXCEPT !.op = op, !.id = c, !.persisted = TRUE,
                               !.broadcast = <<Update("assignee_last_seen_at", now)>>],
                FALSE)

\* Mutant of UpdateConversationFirstReplyAtResult: the update is broadcast
\* whether or not a row was affected.
UpdateConversationFirstReplyAtResult_AlwaysBroadcast(c, at, fail) ==
    LET op == "UpdateConversationFirstReplyAt"
        rows == IF conv[c].first_reply_at = 0 THEN 1 ELSE 0
    IN  IF "update-conversation-first-reply-at" \in fail
        THEN Rejected(op, c, PlainError, TRUE)
        ELSE IF rows > 0
        THEN Result([conv EXCEPT ![c].first_reply_at = at], applied,
                    [NoCall EXCEPT !.op = op, !.id = c, !.persisted = TRUE,
                                   !.broadcast = <<Update("first_reply_at", at)>>],
                    FALSE)
        ELSE Result(conv, applied,
                    [NoCall EXCEPT !.op = op, !.id = c,
                                   !.broadcast = <<Update("first_reply_at", at)>>],
                    FALSE)

\* Manager.UpdateConversationFirstReplyAt: the statement sets first_reply_at
\* of a conversation that has none; the update is broadcast when a row was
\* affected.
UpdateConversationFirstReplyAtResult(c, at, fail) ==
    LET op == "UpdateConversationFirstReplyAt"
        rows == IF conv[c].first_reply_at = 0 THEN 1 ELSE 0
    IN  IF "update-conversation-first-reply-at" \in fail
        THEN Rejected(op, c, PlainError, TRUE)
        ELSE IF rows > 0
        THEN Result([conv EXCEPT ![c].first_reply_at = at], applied,
                    [NoCall EXCEPT !.op = op, !.id = c, !.persisted = TRUE,
                                   !.broadcast = <<Update("first_reply_at", at)>>],
                    FALSE)
        ELSE Result(conv, applied, [NoCall EXCEPT !.op = op, !.id = c], FALSE)

\* Manager.UpdateAssignee: the statement of the assignee type, then the
\* broadcast.  Assigning a team sets the assigned user to NULL.
AssigneeTypeUser == "user"
AssigneeTypeTeam == "team"
UpdateAssigneeResult(c, assigneeID, assigneeType, fail) ==
    LET op == "UpdateAssignee" IN
    IF assigneeType = AssigneeTypeUser
    THEN IF "update-conversation-assigned-user" \in fail
         THEN Rejected(op, c, PlainError, TRUE)
         ELSE Result([conv EXCEPT ![c].assigned_user_id = assigneeID], applied,
                     [NoCall EXCEPT !.op = op, !.id = c, !.persisted = TRUE,
                                    !.broadcast = <<Update("assigned_user_id", assigneeID)>>],
                     FALSE)
    ELSE IF assigneeType = AssigneeTypeTeam
    THEN IF "update-conversation-assigned-team" \in fail
         THEN Rejected(op, c, PlainError, TRUE)
         ELSE Result([conv EXCEPT ![c].assigned_team_id = assigneeID,
                                  ![c].assigned_user_id = 0], applied,
                     [NoCall EXCEPT !.op = op, !.id = c, !.persisted = TRUE,
                                    !.broadcast = <<Update("assigned_team_id", assigneeID)>>],
                     FALSE)
    ELSE Rejected(op, c, PlainError, FALSE)

\* Manager.SendAssignedConversationEmail: fetch the agent, render the
\* template, send; the number of notifier sends attempted and the error.
SendAssignedConversationEmail(userIDs, fail) ==
    IF "userStore.Get" \in fail THEN [err |-> TRUE, sends |-> 0]
    ELSE IF "template" \in fail THEN [err |-> TRUE, sends |-> 0]
    ELSE [err |-> "notifier" \in fail, sends |-> 1]

\* Mutant of AfterEmail: the error of the notification email is returned.
AfterEmail_Return(err) == IF err THEN "return" ELSE "record"

\* What UpdateConversationUserAssignee does when SendAssignedConversationEmail
\* has returned: an error is logged, and the change is recorded either way.
AfterEmail(err) == "record"

\* Manager.UpdateConversationUserAssignee: update and broadcast, fetch the
\* conversation, send the email, record the activity.
UpdateConversationUserAssigneeResult(c, assigneeID, actor, fail) ==
    LET op == "UpdateConversationUserAssignee"
        upd == UpdateAssigneeResult(c, assigneeID, AssigneeTypeUser, fail)
        mail == SendAssignedConversationEmail(<<assigneeID>>, fail)
        done == [upd.call EXCEPT !.op = op]
        mailed == [done EXCEPT !.sends = mail.sends,
                               !.mail = IF mail.err THEN "failed" ELSE "sent"]
    IN  IF upd.call.err # ""
        THEN Rejected(op, c, GeneralError, upd.dbErr)
        ELSE IF "get-conversation" \in fail
        THEN Result(upd.conv, applied, [done EXCEPT !.err = GeneralError], TRUE)
        ELSE IF AfterEmail(mail.err) = "return"
        THEN Result(upd.conv, applied, [mailed EXCEPT !.err = GeneralError], FALSE)
        ELSE IF "insert-activity" \in fail
        THEN Result(upd.conv, applied, [mailed EXCEPT !.err = GeneralError], TRUE)
        ELSE Result(upd.conv, applied,
                    [mailed EXCEPT
                        !.activity = <<Activity("assigned_user", assigneeID, actor)>>],
                    FALSE)

\* Manager.UpdateConversationTeamAssignee: update and broadcast, record the
\* activity.
UpdateConversationTeamAssigneeResult(c, teamID, actor, fail) ==
    LET op == "UpdateConversationTeamAssignee"
        upd == UpdateAssigneeResult(c, teamID, AssigneeTypeTeam, fail)
        done == [upd.call EXCEPT !.op = op]
    IN  IF upd.call.err # ""
        THEN Rejected(op, c, GeneralError, upd.dbErr)
        ELSE IF "insert-activity" \in fail
        THEN Result(upd.conv, applied, [done EXCEPT !.err = GeneralError], TRUE)
        ELSE Result(upd.conv, applied,
                    [done EXCEPT !.activity = <<Activity("assigned_team", teamID, actor)>>],
                    FALSE)

\* Manager.UpdateConversationPriority: the name of the priority id, the
\* statement, the activity, the broadcast.
UpdateConversationPriorityResult(c, priorityID, priority, actor, fail) ==
    LET op == "UpdateConversationPriority"
        getErr == priorityID > 0
                  /\ ("priorityStore" \in fail \/ priorityID \notin DOMAIN PriorityNames)
        name == IF priorityID > 0 /\ ~getErr THEN PriorityNames[priorityID] ELSE priority
        cv == [conv EXCEPT ![c].priority = name]
        done == [NoCall EXCEPT !.op = op, !.id = c, !.persisted = TRUE]
    IN  IF getErr THEN Rejected(op, c, InputError, FALSE)
        ELSE IF "update-conversation-priority" \in fail
        THEN Rejected(op, c, GeneralError, TRUE)
        ELSE IF "insert-activity" \in fail
        THEN Result(cv, applied, [done EXCEPT !.err = GeneralError], TRUE)
        ELSE Result(cv, applied,
                    [done EXCEPT !.activity = <<Activity("priority", name, actor)>>,
                                 !.broadcast = <<Update("priority", name)>>],
                    FALSE)

\* Mutant of SnoozeUntil: an error of time.ParseDuration is ignored.
SnoozeUntil_IgnoreParseError(status, snoozeDur, t) ==
    IF status = StatusSnoozed /\ snoozeDur = "" THEN [err |-> TRUE, at |-> 0]
    ELSE IF status = StatusSnoozed
    THEN [err |-> FALSE, at |-> t + ParseDuration(snoozeDur).minutes]
    ELSE [err |-> FALSE, at |-> 0]

\* Mutant of SnoozeUntil: the duration is taken as the instant itself.
SnoozeUntil_NoClock(status, snoozeDur, t) ==
    IF status = StatusSnoozed /\ snoozeDur = "" THEN [err |-> TRUE, at |-> 0]
    ELSE IF status = StatusSnoozed
    THEN IF ParseDuration(snoozeDur).err THEN [err |-> TRUE, at |-> 0]
         ELSE [err |-> FALSE, at |-> ParseDuration(snoozeDur).minutes]
    ELSE [err |-> FALSE, at |-> 0]

\* Mutant of SnoozeUntil: a duration given with any status is parsed and used.
SnoozeUntil_AnyStatus(status, snoozeDur, t) ==
    IF status = StatusSnoozed /\ snoozeDur = "" THEN [err |-> TRUE, at |-> 0]
    ELSE IF snoozeDur # ""
    THEN IF ParseDuration(snoozeDur).err THEN [err |-> TRUE, at |-> 0]
         ELSE [err |-> FALSE, at |-> t + ParseDuration(snoozeDur).minutes]
    ELSE [err |-> FALSE, at |-> 0]

\* Mutant of SnoozeUntil: a snooze without a duration lasts one minute.
SnoozeUntil_EmptyAllowed(status, snoozeDur, t) ==
    IF status = StatusSnoozed /\ snoozeDur = "" THEN [err |-> FALSE, at |-> t + 1]
    ELSE IF status = StatusSnoozed
    THEN IF ParseDuration(snoozeDur).err THEN [err |-> TRUE, at |-> 0]
         ELSE [err |-> FALSE, at |-> t + ParseDuration(snoozeDur).minutes]
    ELSE [err |-> FALSE, at |-> 0]

\* The snooze part of UpdateConversationStatus: a snooze needs a duration
\* that parses, and gives the instant now + duration; any other status gives
\* the zero time.
SnoozeUntil(status, snoozeDur, t) ==
    IF status = StatusSnoozed /\ snoozeDur = "" THEN [err |-> TRUE, at |-> 0]
    ELSE IF status = StatusSnoozed
    THEN IF ParseDuration(snoozeDur).err THEN [err |-> TRUE, at |-> 0]
         ELSE [err |-> FALSE, at |-> t + ParseDuration(snoozeDur).minutes]
    ELSE [err |-> FALSE, at |-> 0]

\* update-conversation-status: set the status to the name given and the
\* snooze instant (NULL for the zero time).
UpdateConversationStatusQuery(cv, c, status, snoozeUntil) ==
    [cv EXCEPT ![c].status = status, ![c].snoozed_until = snoozeUntil]

\* Manager.UpdateConversationStatus: the name of the status id, the snooze
\* instant, the statement, the activity, the broadcast.
UpdateConversationStatusResult(c, statusID, status, snoozeDur, actor, fail) ==
    LET op == "UpdateConversationStatus"
        getErr == statusID > 0
                  /\ ("statusStore" \in fail \/ statusID \notin DOMAIN StatusNames)
        name == IF statusID > 0 /\ ~getErr THEN StatusNames[statusID] ELSE status
        snooze == SnoozeUntil(name, snoozeDur, now)
        cv == UpdateConversationStatusQuery(conv, c, name, snooze.at)
        done == [NoCall EXCEPT !.op = op, !.id = c, !.persisted = TRUE]
    IN  IF getErr THEN Rejected(op, c, InputError, FALSE)
        ELSE IF snooze.err THEN Rejected(op, c, InputError, FALSE)
        ELSE IF name \notin Statuses THEN Rejected(op, c, GeneralError, FALSE)
        ELSE IF "update-conversation-status" \in fail
        THEN Rejected(op, c, GeneralError, TRUE)
        ELSE IF "insert-activity" \in fail
        THEN Result(cv, applied, [done EXCEPT !.err = GeneralError], TRUE)
        ELSE Result(cv, applied,
                    [done EXCEPT !.activity = <<Activity("status", name, actor)>>,
                                 !.broadcast = <<Update("status", name)>>],
                    FALSE)

\* Manager.Get on the sla_policies table of the model: policy 1 tracks first
\* response only, with a zero-minute target; policy 2 tracks both metrics.
SLAPolicyTable ==
    <<[FirstResponseTime |-> <<0>>, ResolutionTime |-> <<>>],
      [FirstResponseTime |-> <<1>>, ResolutionTime |-> <<1>>]>>

\* conversation.Manager.ApplySLA: apply the policy through the SLA store,
\* passing 0 as the assigned team, and record the activity.
ConvApplySLAResult(c, policyID, actor, fail) ==
    LET op == "ApplySLA"
        known == policyID \in DOMAIN SLAPolicyTable
        r == ApplySLAResult(now, c, 0, SLAPolicyTable[policyID], fail)
        done == [NoCall EXCEPT !.op = op, !.id = c,
                               !.persisted = r.applied # applied]
    IN  IF ~known THEN Rejected(op, c, GeneralError, FALSE)
        ELSE IF r.err # ""
        THEN [Result(conv, r.applied, [done EXCEPT !.err = GeneralError], r.dbErr)
                 EXCEPT !.stmt = r.stmt]
        ELSE IF "insert-activity" \in fail
        THEN [Result(conv, r.applied, [done EXCEPT !.err = GeneralError], TRUE)
                 EXCEPT !.stmt = r.stmt]
        ELSE [Result(conv, r.applied,
                     [done EXCEPT !.activity = <<Activity("sla", policyID, actor)>>],
                     FALSE)
                 EXCEPT !.stmt = r.stmt]

\* Manager.SendPrivateNote / Manager.SendReply: insert a message of the
\* conversation (the messages table is outside the model).
SendMessageResult(op, c, fail) ==
    IF "insert-message" \in fail THEN Rejected(op, c, PlainError, TRUE)
    ELSE Result(conv, applied, [NoCall EXCEPT !.op = op, !.id = c, !.persisted = TRUE],
                FALSE)

\* Manager.UpsertConversationTags: the statement gives the conversation the
\* tags named; nothing is recorded or broadcast.
UpsertConversationTagsResult(c, tagNames, fail) ==
    IF "upsert-conversation-tags" \in fail
    THEN Rejected("UpsertConversationTags", c, GeneralError, TRUE)
    ELSE Result([conv EXCEPT ![c].tags = tagNames], applied,
                [NoCall EXCEPT !.op = "UpsertConversationTags", !.id = c,
                               !.persisted = TRUE],
                FALSE)

\* amodels.Action*: the action types.
ActionAssignTeam == "assign_team"
ActionAssignUser == "assign_user"
ActionSetPriority == "set_priority"
ActionSetStatus == "set_status"
ActionSendPrivateNote == "send_private_note"
ActionReply == "reply"
ActionSetSLA == "set_sla"
ActionSetTags == "set_tags"
ActionTypes == {ActionAssignTeam, ActionAssignUser, ActionSetPriority,
                ActionSetStatus, ActionSendPrivateNote, ActionReply,
                ActionSetSLA, ActionSetTags}

\* Mutant of NoValue: the length of the value list is not checked.
NoValue_Unchecked(value) == FALSE

\* The first test of ApplyAction: the action has no value.
NoValue(value) == Len(value) = 0

\* Mutant of ActingUser: the system user is not substituted.
ActingUser_AsGiven(user, systemUser) == user

\* The user ApplyAction acts for: the system user when none is given.
ActingUser(user, systemUser) == IF user = 0 THEN systemUser ELSE user

\* The first value of an action; "" stands in when the unchecked list is empty.
FirstValue(value) == IF Len(value) = 0 THEN "" ELSE value[1]

\* Mutant of WrapError: the mutator's error is returned as it is.
WrapError_Bare(type, err) == [err |-> err, names |-> "", wraps |-> ""]

\* fmt.Errorf("could not apply %s action: %w", action.Type, err): a plain
\* error whose text names the action type and which wraps err.
WrapError(type, err) == [err |-> PlainError, names |-> type, wraps |-> err]

\* The errors of ApplyAction that wrap nothing: "no value provided for
\* action %s" and "unrecognized action type %s".
TypeError(type) == [err |-> PlainError, names |-> type, wraps |-> ""]

\* The call record cl returning the error e.
Returning(cl, e) == [cl EXCEPT !.err = e.err, !.names = e.names, !.wraps = e.wraps]

\* The switch of Manager.ApplyAction: the mutator of the action's type,
\* called for the acting user.
Dispatch(action, c, actor, fail) ==
    LET v == FirstValue(action.Value) IN
             CASE action.Type = ActionAssignTeam ->
                    UpdateConversationTeamAssigneeResult(c, Atoi(v), actor, fail)
               [] action.Type = ActionAssignUser ->
                    UpdateConversationUserAssigneeResult(c, Atoi(v), actor, fail)
               [] action.Type = ActionSetPriority ->
                    UpdateConversationPriorityResult(c, Atoi(v), "", actor, fail)
               [] action.Type = ActionSetStatus ->
                    UpdateConversationStatusResult(c, Atoi(v), "", "", actor, fail)
               [] action.Type = ActionSendPrivateNote ->
                    SendMessageResult("SendPrivateNote", c, fail)
               [] action.Type = ActionReply ->
                    SendMessageResult("SendReply", c, fail)
               [] action.Type = ActionSetSLA ->
                    ConvApplySLAResult(c, Atoi(v), actor, fail)
               [] action.Type = ActionSetTags ->
                    UpsertConversationTagsResult(c, action.Value, fail)
               [] OTHER -> Rejected("default", c, PlainError, FALSE)

\* What ApplyAction returns once the mutator has returned r: the mutator's
\* error wrapped, or nil.
AfterMutator(r, type, lookups) ==
    IF r.call.err # ""
    THEN [r EXCEPT !.call = Returning([@ EXCEPT !.op = "ApplyAction", !.lookups = lookups],
                                      WrapError(type, r.call.err))]
    ELSE [r EXCEPT !.call.op = "ApplyAction", !.call.lookups = lookups]

\* Manager.ApplyAction: check the value, pick the acting user, dispatch on
\* the type; an error of the mutator is wrapped in a plain error that names
\* the action type.
ApplyActionResult(action, c, user, fail) ==
    LET op == "ApplyAction"
        lookups == IF user = 0 THEN 1 ELSE 0
        actor == ActingUser(user, SystemUserID)
        refused == [NoCall EXCEPT !.op = op, !.id = c]
    IN  IF NoValue(action.Value)
        THEN Result(conv, applied, Returning(refused, TypeError(action.Type)), FALSE)
        ELSE IF user = 0 /\ "GetSystemUser" \in fail
        THEN Result(conv, applied,
                    Returning([refused EXCEPT !.lookups = lookups],
                              WrapError(action.Type, PlainError)),
                    FALSE)
        ELSE IF action.Type \notin ActionTypes
        THEN Result(conv, applied,
                    Returning([refused EXCEPT !.lookups = lookups],
                              TypeError(action.Type)),
                    FALSE)
        ELSE CHOOSE res \in {AfterMutator(r, action.Type, lookups) :
                              r \in {Dispatch(action, c, actor, fail)}} : TRUE

\* ------------------------------------------------------ conversation lists
conversationsListMaxPageSize == 100

\* models.*Conversations: the list types.
AssignedConversations == "assigned"
UnassignedConversations == "unassigned"
TeamUnassignedConversations == "team_unassigned"
AllConversations == "all"
ListTypes == {AssignedConversations, UnassignedConversations,
              TeamUnassignedConversations, AllConversations}

\* The fields a filter of the conversations list may name; a filter is
\* modelled by the field it names, "" for no filter.
ConversationsListAllowedFilterFields ==
    {"status_id", "priority_id", "assigned_team_id", "assigned_user_id", "inbox_id"}

\* The messages of the errors of a list request.
InvalidPageSizeMsg == "invalid page size"
InvalidPageMsg == "page must be greater than 0"
NoListTypesMsg == "no conversation list types specified"
UnknownListTypeMsg == "unknown conversation type"
InvalidFilterMsg == "invalid filter field"
ErrorFetchingMsg == "globals.messages.errorFetching"

\* Mutant of InvalidPageSize: a page size below 1 is let through.
InvalidPageSize_NoLower(pageSize) == pageSize > conversationsListMaxPageSize

\* The first validation of makeConversationsListQuery.
InvalidPageSize(pageSize) ==
    pageSize > conversationsListMaxPageSize \/ pageSize < 1

\* dbutil.BuildPaginatedQuery: builds the paginated query; a filter on a
\* field that is not allowed is an error.
BuildPaginatedQuery(filter) ==
    IF filter # "" /\ filter \notin ConversationsListAllowedFilterFields
    THEN InvalidFilterMsg ELSE ""

\* Manager.makeConversationsListQuery: the error it returns, "" for none.
\* The page size, the page and the list types are validated in this order,
\* then the query is built.
makeConversationsListQuery(listTypes, page, pageSize, filter) ==
    IF InvalidPageSize(pageSize) THEN InvalidPageSizeMsg
    ELSE IF page < 1 THEN InvalidPageMsg
    ELSE IF Len(listTypes) = 0 THEN NoListTypesMsg
    ELSE IF \E i \in DOMAIN listTypes : listTypes[i] \notin ListTypes
    THEN UnknownListTypeMsg
    ELSE BuildPaginatedQuery(filter)

\* The error GetConversations returns when makeConversationsListQuery
\* failed with makeErr: the builder's error is logged, and a general error
\* with the "error fetching" message is returned.
ListErrorCategory(makeErr) == [err |-> GeneralError, msg |-> ErrorFetchingMsg]

\* Manager.GetConversations: make the query, begin a transaction, select.
\* When BeginTxx fails tx is nil and the deferred tx.Rollback() panics.
GetConversationsResult(listTypes, page, pageSize, filter, fail) ==
    LET op == "GetConversations"
        makeErr == makeConversationsListQuery(listTypes, page, pageSize, filter)
        made == [NoCall EXCEPT !.op = op]
        begun == [made EXCEPT !.tx = 1]
    IN  IF makeErr # ""
        THEN Result(conv, applied,
                    [made EXCEPT !.err = ListErrorCategory(makeErr).err,
                                 !.msg = ListErrorCategory(makeErr).msg],
                    FALSE)
        ELSE IF "begin-tx" \in fail
        THEN Result(conv, applied, [made EXCEPT !.err = "panic"], TRUE)
        ELSE IF "get-conversations" \in fail
        THEN Result(conv, applied,
                    [begun EXCEPT !.selects = 1, !.err = GeneralError,
                                  !.msg = ErrorFetchingMsg],
                    TRUE)
        ELSE Result(conv, applied, [begun EXCEPT !.selects = 1], FALSE)

\* ------------------------------------------------- requests to the store
\* A request handler runs a store call with result r, once the call before
\* it has returned.  Requests are served until the shutdown signal, and the
\* one AppliedSLA row of the model's conversation is inserted once, with
\* deadlines the clock can pass.
Serve(r) ==
    /\ mainPc = "serving"
    /\ call.op = "none"
    /\ r.dbErr => FALSE \in StoreOk
    /\ \A c \in Conversations :
          r.applied[c] # applied[c]
          => /\ ~applied[c].present
             /\ r.applied[c].first_response_deadline_at < MaxTime
             /\ r.applied[c].resolution_deadline_at < MaxTime
    /\ conv' = r.conv
    /\ applied' = r.applied
    /\ call' = r.call
    /\ lastOp' = r.stmt
    /\ Executed(~r.dbErr)
    /\ UNCHANGED <<cfgVars, pipeVars, now, runVars, mainVars>>

\* The call returns to its caller.
Respond ==
    /\ call.op # "none"
    /\ call' = NoCall
    /\ lastOp' = NoOp
    /\ UNCHANGED <<cfgVars, pipeVars, now, conv, applied, runVars, mainVars, errs>>

\* The call's record with the arguments of the request.
WithArgs(r, args) == [r EXCEPT !.call.args = args]

UpdateConversationAssigneeLastSeen(c) ==
    \E fail \in OneFailure({"update-conversation-assignee-last-seen"}) :
        Serve(UpdateConversationAssigneeLastSeenResult(c, fail))

UpdateConversationFirstReplyAt(c, at) ==
    \E fail \in OneFailure({"update-conversation-first-reply-at"}) :
        Serve(WithArgs(UpdateConversationFirstReplyAtResult(c, at, fail), [at |-> at]))

UserAssigneeStatements ==
    {"update-conversation-assigned-user", "get-conversation", "insert-activity"}
EmailCollaborators == {"userStore.Get", "template", "notifier"}

UpdateConversationUserAssignee(c, assigneeID, actor) ==
    \E fail \in FailSets(UserAssigneeStatements, EmailCollaborators) :
        Serve(WithArgs(UpdateConversationUserAssigneeResult(c, assigneeID, actor, fail),
                       [assigneeID |-> assigneeID, actor |-> actor]))

UpdateConversationTeamAssignee(c, teamID, actor) ==
    \E fail \in OneFailure({"update-conversation-assigned-team", "insert-activity"}) :
        Serve(WithArgs(UpdateConversationTeamAssigneeResult(c, teamID, actor, fail),
                       [teamID |-> teamID, actor |-> actor]))

UpdateConversationPriority(c, priorityID, priority, actor) ==
    \E fail \in OneFailure({"update-conversation-priority", "insert-activity",
                            "priorityStore"}) :
        Serve(WithArgs(UpdateConversationPriorityResult(c, priorityID, priority, actor, fail),
                       [priorityID |-> priorityID, priority |-> priority, actor |-> actor]))

UpdateConversationStatus(c, statusID, status, snoozeDur, actor) ==
    \E fail \in OneFailure({"update-conversation-status", "insert-activity",
                            "statusStore"}) :
        Serve(WithArgs(UpdateConversationStatusResult(c, statusID, status, snoozeDur, actor, fail),
                       [statusID |-> statusID, status |-> status,
                        snoozeDur |-> snoozeDur, actor |-> actor,
                        from |-> conv[c].status]))

ConvApplySLA(c, policyID, actor) ==
    \E fail \in OneFailure(SLAStatementFails \cup {"insert-activity"} \cup SLAStoreFails) :
        Serve(WithArgs(ConvApplySLAResult(c, policyID, actor, fail),
                       [policyID |-> policyID, actor |-> actor]))

\* The statements and collaborators an action of a type gets to.
ActionStatements(type) ==
    CASE type = ActionAssignTeam -> {"update-conversation-assigned-team", "insert-activity"}
      [] type = ActionAssignUser -> UserAssigneeStatements
      [] type = ActionSetPriority -> {"update-conversation-priority", "insert-activity"}
      [] type = ActionSetStatus -> {"update-conversation-status", "insert-activity"}
      [] type \in {ActionSendPrivateNote, ActionReply} -> {"insert-message"}
      [] type = ActionSetSLA -> SLAStatementFails \cup {"insert-activity"}
      [] type = ActionSetTags -> {"upsert-conversation-tags"}
      [] OTHER -> {}

ActionCollaborators(type) ==
    {"GetSystemUser"} \cup
    (CASE type = ActionSetPriority -> {"priorityStore"}
       [] type = ActionSetStatus -> {"statusStore"}
       [] type = ActionSetSLA -> SLAStoreFails
       [] OTHER -> {})

ApplyAction(action, c, user) ==
    \E fail \in FailSets(ActionStatements(action.Type) \cup ActionCollaborators(action.Type),
                         IF action.Type = ActionAssignUser THEN EmailCollaborators ELSE {}) :
        Serve(WithArgs(ApplyActionResult(action, c, user, fail),
                       [action |-> action, user |-> user]))

GetConversations(listTypes, page, pageSize, filter) ==
    \E fail \in OneFailure({"begin-tx", "get-conversations"}) :
        Serve(WithArgs(GetConversationsResult(listTypes, page, pageSize, filter, fail),
                       [listTypes |-> listTypes, page |-> page,
                        pageSize |-> pageSize, filter |-> filter]))

\* ------------------------------------------------- deadline projection
\* A working week in clock units: two open units, then a closure of three.
WorkWeek == [IsAlwaysOpen |-> FALSE, Hours |-> <<TRUE, TRUE, FALSE, FALSE, FALSE>>]

\* The calendars a deadline is projected in.
Calendars == {BusinessHours(id) : id \in BusinessHoursIds} \cup {WorkWeek}

\* A call of Manager.CalculateDeadline and the deadline it returns.
ComputeDeadline(startTime, minutes, businessHrs, timezone) ==
    /\ call.op = "none"
    /\ call' = [NoCall EXCEPT
                  !.op = "CalculateDeadline",
                  !.deadline = [start |-> startTime, minutes |-> minutes,
                                timezone |-> timezone, bh |-> businessHrs,
                                at |-> CalculateDeadline(startTime, minutes,
                                                         businessHrs, timezone)]]
    /\ UNCHANGED <<cfgVars, pipeVars, now, conv, applied, runVars, mainVars,
                   lastOp, errs>>

\* A call of the closure calculateDeadline for a policy's duration string,
\* and the deadline it returns.
PolicyDeadline(startTime, durationStr, businessHrs, timezone) ==
    /\ call.op = "none"
    /\ call' = [NoCall EXCEPT
                  !.op = "calculateDeadline",
                  !.args = [durationStr |-> durationStr],
                  !.deadline = [start |-> startTime,
                                minutes |-> IF durationStr = <<>> THEN 0
                                            ELSE Minutes(PolicyDuration(durationStr)),
                                timezone |-> timezone, bh |-> businessHrs,
                                at |-> calculateDeadline(startTime, durationStr,
                                                         businessHrs, timezone)]]
    /\ UNCHANGED <<cfgVars, pipeVars, now, conv, applied, runVars, mainVars,
                   lastOp, errs>>

\* ------------------------------------------------------ incoming pipeline
RECURSIVE Total(_, _)
\* The number of messages a bag over the keys ks holds.
Total(bag, ks) ==
    IF ks = {} THEN 0
    ELSE LET k == CHOOSE x \in ks : TRUE IN bag[k] + Total(bag, ks \ {k})

\* A channel adapter puts an inbound message on the incoming queue; the
\* send blocks while the queue is full.
Deliver(inbox, source) ==
    /\ Total(delivered, DedupKeys) < MaxDeliveries
    /\ Len(incomingMessageQueue) < QueueSize
    /\ incomingMessageQueue' =
          Append(incomingMessageQueue, [inbox |-> inbox, source |-> source])
    /\ delivered' = [delivered EXCEPT ![<<inbox, source>>] = @ + 1]
    /\ UNCHANGED <<coreVars, outVars, messages, inWorker>>

\* An incoming worker receives one message from the queue.
InPull(w) ==
    /\ inWorker[w].pc = "idle"
    /\ Len(incomingMessageQueue) > 0
    /\ inWorker' = [inWorker EXCEPT ![w] =
                      [Idle EXCEPT !.pc = "check",
                                   !.inbox = Head(incomingMessageQueue).inbox,
                                   !.source = Head(incomingMessageQueue).source]]
    /\ incomingMessageQueue' = Tail(incomingMessageQueue)
    /\ UNCHANGED <<coreVars, outVars, messages, delivered>>

\* MessageStore.MessageExists(string) / message-exists-by-source-id: a
\* message with this source id is persisted.
MessageExists(sourceID) == \E inbox \in Inboxes : messages[<<inbox, sourceID>>] > 0

\* The worker checks whether the message is a duplicate: a duplicate is
\* discarded, any other message goes on to be persisted.
InCheck(w) ==
    /\ inWorker[w].pc = "check"
    /\ inWorker' = [inWorker EXCEPT ![w] =
                      IF MessageExists(inWorker[w].source) THEN Idle
                      ELSE [@ EXCEPT !.pc = "insert"]]
    /\ UNCHANGED <<coreVars, outVars, messages, incomingMessageQueue, delivered>>

\* insert-message: the worker persists the message.
InInsert(w) ==
    /\ inWorker[w].pc = "insert"
    /\ messages' = [messages EXCEPT ![<<inWorker[w].inbox, inWorker[w].source>>] = @ + 1]
    /\ inWorker' = [inWorker EXCEPT ![w] = Idle]
    /\ UNCHANGED <<coreVars, outVars, incomingMessageQueue, delivered>>

\* ------------------------------------------------------ outgoing pipeline
\* A reply is submitted: the message is stored as pending and queued.
QueueReply(id) ==
    /\ outStatus[id] = "none"
    /\ Len(outgoingMessageQueue) < QueueSize
    /\ outStatus' = [outStatus EXCEPT ![id] = "pending"]
    /\ outgoingMessageQueue' = Append(outgoingMessageQueue, id)
    /\ UNCHANGED <<coreVars, inVars, outgoingProcessingMessages, outWorker>>

\* The periodic scan queues a message that is still pending or failed,
\* also one that is queued or being sent already.
Rescan(id) ==
    /\ outStatus[id] \in {"pending", "failed"}
    /\ Len(outgoingMessageQueue) < QueueSize
    /\ outgoingMessageQueue' = Append(outgoingMessageQueue, id)
    /\ UNCHANGED <<coreVars, inVars, outStatus, outgoingProcessingMessages, outWorker>>

Admit_Always(id, inFlight) == TRUE

\* outgoingProcessingMessages, insert-if-absent: an id is admitted for
\* processing only when it is not in the set.
Admit(id, inFlight) == id \notin inFlight

\* An outgoing worker receives one message id from the queue; it starts a
\* processing attempt if the in-flight set admits the id and drops the id
\* otherwise.
OutPull(w) ==
    /\ outWorker[w].pc = "idle"
    /\ Len(outgoingMessageQueue) > 0
    /\ LET id == Head(outgoingMessageQueue) IN
         IF Admit(id, outgoingProcessingMessages)
         THEN /\ outgoingProcessingMessages' = outgoingProcessingMessages \cup {id}
              /\ outWorker' = [outWorker EXCEPT ![w] =
                                 [Idle EXCEPT !.pc = "send", !.id = id]]
         ELSE UNCHANGED <<outgoingProcessingMessages, outWorker>>
    /\ outgoingMessageQueue' = Tail(outgoingMessageQueue)
    /\ UNCHANGED <<coreVars, inVars, outStatus>>

\* The attempt completes: the inbox's send succeeded (message sent) or
\* failed (message failed); either way the id leaves the in-flight set.
OutSend(w, ok) ==
    /\ outWorker[w].pc = "send"
    /\ outStatus' = [outStatus EXCEPT ![outWorker[w].id] =
                       IF ok THEN "sent" ELSE "failed"]
    /\ outgoingProcessingMessages' = outgoingProcessingMessages \ {outWorker[w].id}
    /\ outWorker' = [outWorker EXCEPT ![w] = Idle]
    /\ UNCHANGED <<coreVars, inVars, outgoingMessageQueue>>

\* ------------------------------------------------------------ Manager.Run
\* The goroutine starts: NewTicker, wg.Add(1), and reaches the select.
RunStart ==
    /\ runPc = "spawned"
    /\ wg' = wg + 1
    /\ runPc' = "select"
    /\ lastOp' = NoOp
    /\ call' = NoCall
    /\ UNCHANGED <<cfgVars, pipeVars, now, conv, applied, batch, idx, evaluated, finished, failed,
                   ctxDone, mainPc, cancelAt, errs>>

\* select, case <-ctx.Done(): return; the deferred function runs wg.Done().
RunCtxDone ==
    /\ SelectReady(runPc)
    /\ ctxDone
    /\ runPc' = "returned"
    /\ wg' = wg - 1
    /\ lastOp' = NoOp
    /\ call' = NoCall
    /\ UNCHANGED <<cfgVars, pipeVars, now, conv, applied, batch, idx, evaluated, finished, failed,
                   ctxDone, mainPc, cancelAt, errs>>

\* select, case <-ticker.C: evaluatePendingSLAs is called.  A tick can be
\* ready at any time, also together with ctx.Done().
RunTick ==
    /\ runPc = "select"
    /\ runPc' = "fetch"
    /\ lastOp' = NoOp
    /\ call' = NoCall
    /\ UNCHANGED <<cfgVars, pipeVars, now, conv, applied, batch, idx, evaluated, finished, failed,
                   mainVars, errs>>

\* evaluatePendingSLAs: GetPendingSLAs.SelectContext(ctx, ...).  A cancelled
\* context or a store failure is returned to Run, which logs it.
Fetch ==
    /\ runPc = "fetch"
    /\ \E ok \in StoreOk :
        LET err == ctxDone \/ ~ok IN
        /\ batch' = IF err THEN <<>> ELSE GetPendingSLAs
        /\ runPc' = IF err THEN "select" ELSE "loop"
        /\ lastOp' = [op |-> "get-pending-slas", id |-> 0, type |-> "", ok |-> ~err]
        /\ Executed(ctxDone \/ ok)
    /\ idx' = 1
    /\ evaluated' = {}
    /\ finished' = {}
    /\ failed' = {}
    /\ call' = NoCall
    /\ UNCHANGED <<cfgVars, pipeVars, now, conv, applied, mainVars>>

\* Mutant of LoopTurn: the range loop does not look at ctx.Done().
LoopTurn_NoCancel(atEnd, cancelled) == IF atEnd THEN "end" ELSE "evaluate"

\* What one turn of the range loop does: leave at the end of the batch,
\* return ctx.Err() when the context is cancelled, else call evaluateSLA.
LoopTurn(atEnd, cancelled) ==
    IF atEnd THEN "end" ELSE IF cancelled THEN "cancel" ELSE "evaluate"

Loop ==
    /\ runPc = "loop"
    /\ LET turn == LoopTurn(idx > Len(batch), ctxDone) IN
        /\ runPc' = IF turn = "evaluate" THEN "checkFR" ELSE "select"
        /\ evaluated' = IF turn = "evaluate"
                        THEN evaluated \cup {batch[idx].id} ELSE evaluated
    /\ lastOp' = NoOp
    /\ call' = NoCall
    /\ UNCHANGED <<cfgVars, pipeVars, now, conv, applied, batch, idx, finished, failed, mainVars, errs>>

\* evaluateSLA returns to the range loop, which moves to the next row.
Return(err) ==
    /\ idx' = idx + 1
    /\ finished' = finished \cup {batch[idx].id}
    /\ failed' = IF err THEN failed \cup {batch[idx].id} ELSE failed

InEvaluate(pc) == pc \in {"checkFR", "checkRes", "setNext", "updStatus"}

\* One metric of evaluateSLA: the guard, checkDeadline and its update.
CheckMetric(type, deadline, completedAt, breachedAt, metAt, nextPc) ==
    LET sla == batch[idx]
        outcome == IF NeedsCheck(breachedAt, metAt)
                   THEN checkDeadline(deadline, completedAt, now)
                   ELSE "none"
    IN \E ok \in StoreOk :
        LET err == outcome # "none" /\ ~ok IN
        /\ applied' = IF outcome = "breach" /\ ok
                         THEN UpdateBreach(applied, sla.id, type, now)
                      ELSE IF outcome = "met" /\ ok
                         THEN UpdateMet(applied, sla.id, type, now)
                      ELSE applied
        /\ lastOp' = IF outcome = "none" THEN NoOp
                     ELSE [op |-> outcome, id |-> sla.id, type |-> type, ok |-> ok]
        /\ runPc' = AfterCheck(err, outcome, nextPc)
        /\ Executed(outcome = "none" \/ ok)
        /\ IF InEvaluate(runPc') THEN UNCHANGED <<idx, finished, failed>>
                                 ELSE Return(TRUE)
        /\ call' = NoCall
        /\ UNCHANGED <<cfgVars, pipeVars, now, conv, batch, evaluated, mainVars>>

CheckFirstResponse ==
    /\ runPc = "checkFR"
    /\ CheckMetric(SLATypeFirstResponse,
                   batch[idx].first_response_deadline_at,
                   batch[idx].conversation_first_response_at,
                   batch[idx].first_response_breached_at,
                   batch[idx].first_response_met_at,
                   "checkRes")

CheckResolution ==
    /\ runPc = "checkRes"
    /\ CheckMetric(SLATypeResolution,
                   batch[idx].resolution_deadline_at,
                   batch[idx].conversation_resolved_at,
                   batch[idx].resolution_breached_at,
                   batch[idx].resolution_met_at,
                   "setNext")

\* Mutant of AfterSetNext: evaluateSLA returns once the next deadline is set.
AfterSetNext_Return(err) == AfterEvaluate(err)

\* What evaluateSLA does after SetNextSLADeadline.Exec: return the error, or
\* go on to refresh the status.
AfterSetNext(err) == IF err THEN AfterEvaluate(TRUE) ELSE "updStatus"

\* SetNextSLADeadline.Exec(sla.ConversationID)
SetNextDeadline ==
    /\ runPc = "setNext"
    /\ LET sla == batch[idx] IN
       \E ok \in StoreOk :
        /\ conv' = IF ok
                   THEN [conv EXCEPT ![sla.conversation_id].next_sla_deadline_at =
                                        NextSLADeadline(applied[sla.id])]
                   ELSE conv
        /\ lastOp' = [op |-> "set-next-sla-deadline", id |-> sla.id,
                      type |-> "", ok |-> ok]
        /\ runPc' = AfterSetNext(~ok)
        /\ Executed(ok)
        /\ IF InEvaluate(runPc') THEN UNCHANGED <<idx, finished, failed>>
                                 ELSE Return(~ok)
    /\ call' = NoCall
    /\ UNCHANGED <<cfgVars, pipeVars, now, applied, batch, evaluated, mainVars>>

\* UpdateSLAStatus.Exec(sla.ID), then evaluateSLA returns.
UpdateStatus ==
    /\ runPc = "updStatus"
    /\ LET sla == batch[idx] IN
       \E ok \in StoreOk :
        /\ applied' = IF ok
                      THEN [applied EXCEPT ![sla.id].status = SLAStatus(applied[sla.id])]
                      ELSE applied
        /\ lastOp' = [op |-> "update-sla-status", id |-> sla.id,
                      type |-> "", ok |-> ok]
        /\ runPc' = AfterEvaluate(~ok)
        /\ Executed(ok)
        /\ Return(~ok)
    /\ call' = NoCall
    /\ UNCHANGED <<cfgVars, pipeVars, now, conv, batch, evaluated, mainVars>>

\* --------------------------------------------------------- main's shutdown
\* The shutdown signal cancels ctx; main goes on to close the services.
Shutdown ==
    /\ mainPc = "serving"
    /\ ctxDone' = TRUE
    /\ mainPc' = "stopping"
    /\ cancelAt' = IF InEvaluate(runPc) THEN "evaluate"
                   ELSE IF runPc = "loop" THEN "loop" ELSE "idle"
    /\ lastOp' = NoOp
    /\ call' = NoCall
    /\ UNCHANGED <<cfgVars, pipeVars, now, conv, applied, runVars, wg, errs>>

\* sla.Close(): m.wg.Wait() returns when the counter is zero.
Close ==
    /\ mainPc = "stopping"
    /\ wg = 0
    /\ mainPc' = "slaClosed"
    /\ lastOp' = NoOp
    /\ call' = NoCall
    /\ UNCHANGED <<cfgVars, pipeVars, now, conv, applied, runVars, ctxDone, wg, cancelAt, errs>>

\* db.Close()
DBClose ==
    /\ mainPc = "slaClosed"
    /\ mainPc' = "dbClosed"
    /\ lastOp' = NoOp
    /\ call' = NoCall
    /\ UNCHANGED <<cfgVars, pipeVars, now, conv, applied, runVars, ctxDone, wg, cancelAt, errs>>

\* The steps of the goroutine running Manager.Run while it is not cancelled.
Sweep ==
    \/ RunStart
    \/ RunTick
    \/ Fetch
    \/ Loop
    \/ CheckFirstResponse
    \/ CheckResolution
    \/ SetNextDeadline
    \/ UpdateStatus

\* main's shutdown sequence, and Run's return on cancellation.
Main ==
    \/ Shutdown
    \/ RunCtxDone
    \/ Close
    \/ DBClose

\* The SLA engine at work on one conversation: every policy, every timing of
\* replies and resolutions, store failures, and the sweep running.
FocusConv == {1}

Next ==
    \/ ClockTick
    \/ \E c \in FocusConv : FirstReply(c)
    \/ \E c \in FocusConv : Resolve(c)
    \/ \E c \in FocusConv : \E sla \in Policies : ApplySLA(now, c, 0, sla)
    \/ Sweep

Spec == Init /\ [][Next]_vars

\* The sweep over a batch of several AppliedSLAs, and the shutdown of the
\* process: when the Run goroutine is started, every
\* conversation has had a policy applied at instant 1.  To keep the batch's
\* state space small, the policies track first response only and the
\* conversations get no reply and are not resolved during the run.
BatchPolicies ==
    {sla \in Policies : sla.ResolutionTime = <<>> /\ sla.FirstResponseTime # <<>>}

InitBatch ==
    /\ now = 1
    /\ conv = [c \in Conversations |-> NewConversation]
    /\ teams = DefaultTeams
    /\ settings = DefaultSettings
    /\ call = NoCall
    /\ \E policyOf \in [Conversations -> BatchPolicies] :
          applied = [c \in Conversations |->
                       ApplySLAQuery([d \in Conversations |-> NoRow], c,
                                     CalculateDeadlines(1, policyOf[c], 0, {}))[c]]
    /\ runPc = "spawned"
    /\ batch = <<>>
    /\ idx = 1
    /\ ctxDone = FALSE
    /\ mainPc = "serving"
    /\ wg = 0
    /\ lastOp = NoOp
    /\ evaluated = {}
    /\ finished = {}
    /\ failed = {}
    /\ cancelAt = ""
    /\ errs = 0
    /\ InitPipeline

NextBatch ==
    \/ ClockTick
    \/ Sweep
    \/ Main

SpecBatch == InitBatch /\ [][NextBatch]_vars

\* The sweep that keeps running: no cancellation, no store failure, and a
\* conversation that never receives a reply.  The ticker keeps firing, the
\* goroutine keeps being scheduled and time keeps passing.
NoStoreError == lastOp'.ok

SweepLive == Sweep /\ NoStoreError

NextLive ==
    \/ ClockTick
    \/ \E c \in FocusConv : Resolve(c)
    \/ \E c \in FocusConv : \E sla \in Policies : ApplySLA(now, c, 0, sla) /\ NoStoreError
    \/ SweepLive

SpecLive == Init /\ [][NextLive]_vars /\ WF_vars(ClockTick) /\ WF_vars(SweepLive)

\* The conversation store serving requests on one conversation: every
\* mutator called directly, with the failures of its statements and
\* collaborators.  The SLA sweep is not running and the clock stands.
ActingUsers == {0, 2}
StatusRequests ==
    {<<id, "">> : id \in DOMAIN StatusNames} \cup {<<0, name>> : name \in Statuses}
PriorityRequests == {<<id, "">> : id \in DOMAIN PriorityNames} \cup {<<0, "Low">>}

NextStore ==
    \/ Respond
    \/ \E c \in FocusConv : UpdateConversationAssigneeLastSeen(c)
    \/ \E c \in FocusConv : UpdateConversationFirstReplyAt(c, now)
    \/ \E c \in FocusConv : \E assigneeID \in Agents : \E actor \in ActingUsers :
          UpdateConversationUserAssignee(c, assigneeID, actor)
    \/ \E c \in FocusConv : \E teamID \in Teams : \E actor \in ActingUsers :
          UpdateConversationTeamAssignee(c, teamID, actor)
    \/ \E c \in FocusConv : \E req \in PriorityRequests : \E actor \in ActingUsers :
          UpdateConversationPriority(c, req[1], req[2], actor)
    \/ \E c \in FocusConv : \E statusID \in DOMAIN StatusNames :
       \E snoozeDur \in {"", "1m"} : \E actor \in ActingUsers :
          UpdateConversationStatus(c, statusID, "", snoozeDur, actor)

SpecStore == Init /\ [][NextStore]_vars

\* The action executor at work on one conversation: every action type and an
\* unknown one, with no value, numeric values and a value that is no number,
\* for the zero user and for an agent.
ActionValues == {<<>>, <<"2">>, <<"3">>, <<"x">>}
Actions == [Type : ActionTypes \cup {"unknown"}, Value : ActionValues]

NextAction ==
    \/ Respond
    \/ \E c \in FocusConv : \E action \in Actions : \E user \in ActingUsers :
          ApplyAction(action, c, user)

SpecAction == Init /\ [][NextAction]_vars

\* Status changes of one conversation while time passes: every status by id
\* or by name, with every snooze duration, and through the action executor.
NextStatus ==
    \/ ClockTick
    \/ Respond
    \/ \E c \in FocusConv : \E req \in StatusRequests :
       \E snoozeDur \in SnoozeDurs : \E actor \in ActingUsers :
          UpdateConversationStatus(c, req[1], req[2], snoozeDur, actor)
    \/ \E c \in FocusConv : \E value \in ActionValues \cup {<<"1">>, <<"4">>} :
       \E user \in ActingUsers :
          ApplyAction([Type |-> ActionSetStatus, Value |-> value], c, user)

SpecStatus == Init /\ [][NextStatus]_vars

\* Applying SLA policies under every configuration of the team's and the
\* app's business hours and timezone.
InitConfig ==
    /\ now = 1
    /\ conv = [c \in Conversations |-> NewConversation]
    /\ teams \in [Teams -> TeamRows]
    /\ settings \in AppSettings
    /\ call = NoCall
    /\ applied = [c \in Conversations |-> NoRow]
    /\ runPc = "spawned"
    /\ batch = <<>>
    /\ idx = 1
    /\ ctxDone = FALSE
    /\ mainPc = "serving"
    /\ wg = 0
    /\ lastOp = NoOp
    /\ evaluated = {}
    /\ finished = {}
    /\ failed = {}
    /\ cancelAt = ""
    /\ errs = 0
    /\ InitPipeline

NextConfig ==
    \/ ClockTick
    \/ Respond
    \/ \E c \in FocusConv : \E teamID \in Teams : \E actor \in ActingUsers \ {0} :
          UpdateConversationTeamAssignee(c, teamID, actor)
    \/ \E c \in FocusConv : \E assignedTeamID \in {0} \cup Teams :
       \E policyID \in DOMAIN SLAPolicyTable :
          ApplySLA(now, c, assignedTeamID, SLAPolicyTable[policyID])
    \/ \E c \in FocusConv : \E policyID \in DOMAIN SLAPolicyTable :
       \E actor \in ActingUsers \ {0} :
          ConvApplySLA(c, policyID, actor)
    \/ \E c \in FocusConv : \E policyID \in DOMAIN SLAPolicyTable :
          ApplyAction([Type |-> ActionSetSLA, Value |-> <<Numerals[policyID]>>], c, 0)

SpecConfig == InitConfig /\ [][NextConfig]_vars

\* List requests: page sizes and pages around their limits, list-type sets
\* that are empty, known, unknown and mixed, filters on an allowed field,
\* on a field that is not allowed, and none.
PageSizes == {-1, 0, 1, conversationsListMaxPageSize, conversationsListMaxPageSize + 1}
Pages == {-1, 0, 1, 2}
ListTypeSets == {<<>>, <<AllConversations>>, <<AssignedConversations, UnassignedConversations>>,
                 <<"bogus">>, <<TeamUnassignedConversations, "bogus">>}
Filters == {"", "status_id", "bogus_field"}

NextList ==
    \/ Respond
    \/ \E listTypes \in ListTypeSets : \E page \in Pages : \E pageSize \in PageSizes :
       \E filter \in Filters :
          GetConversations(listTypes, page, pageSize, filter)

SpecList == Init /\ [][NextList]_vars

\* The incoming pipeline: channel adapters deliver messages, also the same
\* one again, and the pool of incoming workers processes them.
NextInbound ==
    \/ \E inbox \in Inboxes : \E source \in SourceIds : Deliver(inbox, source)
    \/ \E w \in IncomingWorkers : InPull(w)
    \/ \E w \in IncomingWorkers : InCheck(w)
    \/ \E w \in IncomingWorkers : InInsert(w)

SpecInbound == Init /\ [][NextInbound]_vars

\* The outgoing pipeline: replies are queued, the scan queues them again,
\* and the pool of outgoing workers sends them.
NextOutgoing ==
    \/ \E id \in MsgIds : QueueReply(id)
    \/ \E id \in MsgIds : Rescan(id)
    \/ \E w \in OutgoingWorkers : OutPull(w)
    \/ \E w \in OutgoingWorkers : \E ok \in BOOLEAN : OutSend(w, ok)

SpecOutgoing == Init /\ [][NextOutgoing]_vars

\* Deadline projections for every start, amount of minutes, calendar and
\* timezone.
NextDeadline ==
    \/ \E startTime \in 0..MaxTime : \E minutes \in 0..MaxMinutes :
         \E businessHrs \in Calendars : \E timezone \in Timezones :
           ComputeDeadline(startTime, minutes, businessHrs, timezone)
    \/ Respond

SpecDeadline == Init /\ [][NextDeadline]_vars

\* Policy deadlines for every start, duration string written in minutes or
\* in seconds, calendar and timezone.
NextDuration ==
    \/ \E startTime \in 0..MaxTime : \E durationStr \in Durations :
         \E businessHrs \in Calendars : \E timezone \in Timezones :
           PolicyDeadline(startTime, durationStr, businessHrs, timezone)
    \/ \E startTime \in 0..MaxTime : \E durationStr \in SecondDurations :
         \E businessHrs \in Calendars : \E timezone \in Timezones :
           PolicyDeadline(startTime, durationStr, businessHrs, timezone)
    \/ Respond

SpecDuration == Init /\ [][NextDuration]_vars

TypeOK ==
    /\ now \in Times
    /\ runPc \in {"spawned", "select", "fetch", "loop", "checkFR", "checkRes",
                  "setNext", "updStatus", "returned"}
    /\ mainPc \in {"serving", "stopping", "slaClosed", "dbClosed"}
    /\ wg \in 0..1
    /\ idx \in 1..(NumConv + 1)
    /\ errs \in 0..MaxStoreErrors
    /\ cancelAt \in {"", "idle", "loop", "evaluate"}
    /\ teams \in [Teams -> TeamRows]
    /\ settings \in AppSettings
    /\ \A c \in Conversations :
          /\ conv[c].status \in Statuses
          /\ conv[c].snoozed_until \in 0..(MaxTime + Len(DurationStrings))
          /\ conv[c].assigned_user_id \in 0..Len(Numerals)
          /\ conv[c].assigned_team_id \in 0..Len(Numerals)
    /\ call.id \in {0} \cup Conversations
    /\ call.err \in {"", InputError, GeneralError, PlainError, NotConfiguredError,
                     "team store", "settings store", "business hours not found",
                     "Error fetching SLA", "Error applying SLA", "panic"}
    /\ call.sends \in 0..1
    /\ call.lookups \in 0..1
    /\ Len(call.activity) <= 1
    /\ Len(call.broadcast) <= 1
    /\ messages \in [DedupKeys -> 0..MaxDeliveries]
    /\ delivered \in [DedupKeys -> 0..MaxDeliveries]
    /\ Len(incomingMessageQueue) <= QueueSize
    /\ \A w \in IncomingWorkers : inWorker[w].pc \in {"idle", "check", "insert"}
    /\ outStatus \in [MsgIds -> {"none", "pending", "sent", "failed"}]
    /\ Len(outgoingMessageQueue) <= QueueSize
    /\ outgoingProcessingMessages \subseteq MsgIds
    /\ \A w \in OutgoingWorkers : outWorker[w].pc \in {"idle", "send"}

\* ================================================================= claims
\* Readers of a row's or a fetched snapshot's fields by metric.
Deadline(r, type) ==
    IF type = SLATypeFirstResponse THEN r.first_response_deadline_at
    ELSE r.resolution_deadline_at

MetAt(r, type) ==
    IF type = SLATypeFirstResponse THEN r.first_response_met_at
    ELSE r.resolution_met_at

BreachedAt(r, type) ==
    IF type = SLATypeFirstResponse THEN r.first_response_breached_at
    ELSE r.resolution_breached_at

CompletedAt(snap, type) ==
    IF type = SLATypeFirstResponse THEN snap.conversation_first_response_at
    ELSE snap.conversation_resolved_at

PcOf(type) == IF type = SLATypeFirstResponse THEN "checkFR" ELSE "checkRes"

\* The step just taken issued a met/breach update for metric type of row id.
Issued(op, id, type) == lastOp.op = op /\ lastOp.id = id /\ lastOp.type = type

IssuedNext(op, id, type) == lastOp'.op = op /\ lastOp'.id = id /\ lastOp'.type = type

\* The goroutine running the sweep takes the step.
SweepStep == runPc' # runPc

\* C1: once a metric of an AppliedSLA has met_at or breached_at set, no step
\* of any later sweep issues a met or breach update for that metric, and
\* neither timestamp of the metric changes, whatever the clock and the
\* conversation's completion timestamps are.
C1_TerminalMetricIsFinal ==
    [][\A c \in Conversations : \A type \in SLATypes :
          (MetAt(applied[c], type) # 0 \/ BreachedAt(applied[c], type) # 0)
          => /\ MetAt(applied'[c], type) = MetAt(applied[c], type)
             /\ BreachedAt(applied'[c], type) = BreachedAt(applied[c], type)
             /\ ~IssuedNext("met", c, type)
             /\ ~IssuedNext("breach", c, type)]_vars

\* C1's case: a sweep has gone past the first-response check of a row whose
\* first response was already breached when the row was fetched, with the
\* clock past the deadline.
C1_Witness ==
    /\ runPc = "checkRes"
    /\ batch[idx].first_response_breached_at # 0
    /\ now > batch[idx].first_response_breached_at
    /\ applied[batch[idx].id].first_response_breached_at
         = batch[idx].first_response_breached_at

\* C2: when the sweep checks a pending, tracked metric whose completion
\* timestamp is set in the fetched row, it issues update-met exactly when the
\* completion is at or before the deadline and update-breach otherwise,
\* whatever the clock reads; when the update succeeds, that timestamp and only
\* that one is set.
C2_CompletionDecides ==
    [][\A type \in SLATypes :
          (/\ runPc = PcOf(type)
           /\ SweepStep
           /\ MetAt(batch[idx], type) = 0
           /\ BreachedAt(batch[idx], type) = 0
           /\ Deadline(batch[idx], type) # 0
           /\ CompletedAt(batch[idx], type) # 0)
          => LET id == batch[idx].id
                 op == IF CompletedAt(batch[idx], type) <= Deadline(batch[idx], type)
                       THEN "met" ELSE "breach"
             IN /\ IssuedNext(op, id, type)
                /\ lastOp'.ok =>
                     /\ MetAt(applied'[id], type) = (IF op = "met" THEN now ELSE 0)
                     /\ BreachedAt(applied'[id], type) = (IF op = "breach" THEN now ELSE 0)]_vars

\* C2's case: first response marked met by a sweep that runs after the
\* deadline, the reply having come before it.
C2_Witness ==
    /\ runPc = "checkRes"
    /\ Issued("met", batch[idx].id, SLATypeFirstResponse)
    /\ lastOp.ok
    /\ now > batch[idx].first_response_deadline_at
    /\ applied[batch[idx].id].first_response_met_at = now

\* C3: when the sweep checks a pending, tracked metric that has no completion
\* timestamp in the fetched row and the clock is past the deadline, it issues
\* update-breach for that metric; when the update succeeds breached_at is set.
C3_MissedDeadlineBreaches ==
    [][\A type \in SLATypes :
          (/\ runPc = PcOf(type)
           /\ SweepStep
           /\ MetAt(batch[idx], type) = 0
           /\ BreachedAt(batch[idx], type) = 0
           /\ Deadline(batch[idx], type) # 0
           /\ CompletedAt(batch[idx], type) = 0
           /\ now > Deadline(batch[idx], type))
          => LET id == batch[idx].id
             IN /\ IssuedNext("breach", id, type)
                /\ lastOp'.ok =>
                     /\ BreachedAt(applied'[id], type) = now
                     /\ MetAt(applied'[id], type) = 0]_vars

\* C3's case: resolution marked breached for a conversation that is not
\* resolved, the clock being past the deadline.
C3_Witness ==
    /\ runPc = "setNext"
    /\ Issued("breach", batch[idx].id, SLATypeResolution)
    /\ lastOp.ok
    /\ batch[idx].conversation_resolved_at = 0
    /\ now > batch[idx].resolution_deadline_at
    /\ applied[batch[idx].id].resolution_breached_at = now

\* C4: a metric whose deadline is the zero value is never marked met or
\* breached, and no met or breach update is ever issued for it.
C4_UntrackedNeverMarked ==
    /\ \A c \in Conversations : \A type \in SLATypes :
          (applied[c].present /\ Deadline(applied[c], type) = 0)
          => MetAt(applied[c], type) = 0 /\ BreachedAt(applied[c], type) = 0
    /\ lastOp.op \in {"met", "breach"}
          => Deadline(applied[lastOp.id], lastOp.type) # 0

\* C4's case: the sweep has gone past the first-response check of a row that
\* does not track first response, while the conversation has a reply and the
\* other metric has been marked.
C4_Witness ==
    /\ runPc = "setNext"
    /\ batch[idx].first_response_deadline_at = 0
    /\ batch[idx].conversation_first_response_at # 0
    /\ lastOp.op \in {"met", "breach"}
    /\ lastOp.ok

\* C5: if a policy with a first-response time is applied to a conversation
\* that never gets a reply and the sweep keeps running without store errors,
\* first response is eventually marked breached and the overall status
\* eventually is not "pending".
C5_MissedFirstResponseLeavesPending ==
    \A c \in FocusConv :
        (applied[c].present /\ applied[c].first_response_deadline_at # 0)
        ~> (applied[c].first_response_breached_at # 0 /\ applied[c].status # "pending")

\* C5's case: no reply, first response breached, status refreshed while the
\* resolution metric is still pending.
C5_Witness ==
    /\ conv[1].first_reply_at = 0
    /\ applied[1].first_response_breached_at # 0
    /\ applied[1].resolution_deadline_at # 0
    /\ applied[1].resolution_met_at = 0
    /\ applied[1].resolution_breached_at = 0
    /\ applied[1].status = "breached"

\* What checkDeadline is to issue for a metric, from the metric's own deadline
\* and completion timestamp and the clock.
Expected(deadline, completedAt, t) ==
    IF deadline = 0 THEN "none"
    ELSE IF completedAt # 0
         THEN IF completedAt <= deadline THEN "met" ELSE "breach"
    ELSE IF t > deadline THEN "breach"
    ELSE "none"

\* The met/breach update issued by the step just taken failed in the store.
UpdateFailedNext == lastOp'.op \in {"met", "breach"} /\ ~lastOp'.ok

\* C6 as stated: whatever the first-response check does, also when its update
\* fails in the store, the resolution check of the same evaluation follows.
C6_ResolutionAlwaysEvaluated ==
    [][(runPc = "checkFR" /\ SweepStep) => runPc' = "checkRes"]_vars

\* C6 amended: unless the first-response update fails in the store, the
\* resolution check follows the first-response check whatever that check
\* issued, and what the resolution check issues depends on the resolution
\* deadline, the resolved-at timestamp and the clock only.
C6_ResolutionIndependent ==
    [][/\ (runPc = "checkFR" /\ SweepStep /\ ~UpdateFailedNext)
            => runPc' = "checkRes"
       /\ (/\ runPc = "checkRes"
           /\ SweepStep
           /\ batch[idx].resolution_met_at = 0
           /\ batch[idx].resolution_breached_at = 0)
            => LET op == Expected(batch[idx].resolution_deadline_at,
                                  batch[idx].conversation_resolved_at, now)
               IN IF op = "none" THEN lastOp' = NoOp
                  ELSE IssuedNext(op, batch[idx].id, SLATypeResolution)]_vars

\* C6's case: in one evaluation first response was marked breached and then
\* resolution was marked met.
C6_Witness ==
    /\ runPc = "setNext"
    /\ batch[idx].first_response_breached_at = 0
    /\ applied[batch[idx].id].first_response_breached_at = now
    /\ Issued("met", batch[idx].id, SLATypeResolution)
    /\ lastOp.ok

BatchIds == {batch[i].id : i \in 1..Len(batch)}

InSweep(pc) == pc = "loop" \/ InEvaluate(pc)

\* C7: a sweep that is not cancelled ends only after evaluateSLA was called
\* for every AppliedSLA of its batch, whatever errors the calls returned; and
\* Run returns only on cancellation.
C7_ErrorDoesNotStopSweep ==
    [][/\ (InSweep(runPc) /\ runPc' = "select" /\ ~ctxDone) => evaluated' = BatchIds
       /\ (runPc # "returned" /\ runPc' = "returned") => ctxDone]_vars

\* C7's case: a sweep over two rows ended, the evaluation of the first row
\* having returned an error and the second row having been evaluated.
C7_Witness ==
    /\ runPc = "select"
    /\ ~ctxDone
    /\ Len(batch) >= 2
    /\ batch[1].id \in failed
    /\ batch[2].id \in finished
    /\ evaluated = BatchIds

\* C8 as stated: when ctx is cancelled during a sweep, every AppliedSLA of the
\* batch has been evaluated when Run returns.
C8_BatchDrainedAtReturn ==
    (runPc = "returned" /\ cancelAt \in {"loop", "evaluate"}) => evaluated = BatchIds

\* C8 amended: when Run returns, every evaluateSLA call that was started has
\* returned, and the rows evaluated are the first rows of the batch: no
\* AppliedSLA is left half-evaluated, the rows after the cancellation point
\* are left for a later sweep.
C8_NoHalfEvaluatedRow ==
    runPc = "returned"
    => /\ finished = evaluated
       /\ \A i \in 1..Len(batch) :
             batch[i].id \in evaluated => \A j \in 1..i : batch[j].id \in finished

\* C8's case: ctx was cancelled inside the evaluation of the first of two
\* rows; Run has returned with that row evaluated and the second one not.
C8_Witness ==
    /\ runPc = "returned"
    /\ cancelAt = "evaluate"
    /\ Len(batch) >= 2
    /\ evaluated = {batch[1].id}
    /\ finished = evaluated

\* C9: once sla.Close() has returned, Run has returned.
C9_CloseJoinsRun ==
    mainPc \in {"slaClosed", "dbClosed"} => runPc = "returned"

NextStatement(pc) ==
    CASE pc = "checkFR" -> "checkRes"
      [] pc = "checkRes" -> "setNext"
      [] pc = "setNext" -> "updStatus"
      [] pc = "updStatus" -> "loop"

\* C10: once ctx is cancelled, the evaluateSLA call in progress goes through
\* its statements as it would otherwise (it stops early only on a store
\* error), evaluateSLA is called for no further row, and the rows of the
\* batch that were not evaluated are not changed.
C10_CooperativeCancel ==
    [][ctxDone =>
         /\ (InEvaluate(runPc) /\ SweepStep /\ lastOp'.ok)
               => runPc' = NextStatement(runPc)
         /\ evaluated' \subseteq evaluated
         /\ \A c \in Conversations :
               (applied[c].present /\ c \notin evaluated) => applied'[c] = applied[c]]_vars

\* C10's case: ctx was cancelled inside the evaluation of the first of two
\* rows, which went on to mark first response breached and to refresh the
\* status; the second row, whose deadline has passed too, is still pending.
C10_Witness ==
    /\ ctxDone
    /\ cancelAt = "evaluate"
    /\ runPc = "select"
    /\ Len(batch) >= 2
    /\ evaluated = {batch[1].id}
    /\ applied[batch[1].id].first_response_breached_at # 0
    /\ applied[batch[1].id].status = "breached"
    /\ applied[batch[2].id].first_response_breached_at = 0
    /\ applied[batch[2].id].status = "pending"
    /\ now > applied[batch[2].id].first_response_deadline_at

\* The team / the app settings give both a calendar id and a timezone.
TeamYields(t) ==
    t \in Teams /\ teams[t].BusinessHoursID # 0 /\ teams[t].Timezone # ""

AppYields == Atoi(settings.business_hours_id) # 0 /\ settings.timezone # ""

\* C11: when neither the team a policy is applied with nor the app settings
\* give both a business-hours id and a timezone, Manager.ApplySLA of the SLA
\* engine returns the "not configured" error (or the error of the team or
\* settings store it could not read) and the applied_slas table is left as
\* it was; applied through the conversation store, the call fails and no row
\* is inserted either.
C11_NotConfiguredFails ==
    [][/\ \A t \in {0} \cup Teams :
            (call'.op = "sla.ApplySLA" /\ call'.team = t
             /\ ~TeamYields(t) /\ ~AppYields)
            => /\ call'.err \in {NotConfiguredError, "team store", "settings store"}
               /\ applied' = applied
       /\ (call'.op = "ApplySLA" /\ ~AppYields)
            => /\ call'.err # ""
               /\ applied' = applied]_vars

\* A policy was applied with a team that has a calendar but no timezone,
\* under app settings without a calendar, and the call returned the error.
C11_Witness ==
    /\ call.op = "sla.ApplySLA"
    /\ call.team \in Teams
    /\ teams[call.team].BusinessHoursID # 0
    /\ teams[call.team].Timezone = ""
    /\ settings.timezone # ""
    /\ call.err = NotConfiguredError
    /\ ~applied[call.id].present

\* The calendar and timezone the deadlines of a conversation assigned to team
\* t are to be computed with: the team's own when it has both, else the app
\* settings'.
EffectiveCalendar(t) ==
    IF TeamYields(t)
    THEN [bh |-> BusinessHours(teams[t].BusinessHoursID), timezone |-> teams[t].Timezone]
    ELSE [bh |-> BusinessHours(Atoi(settings.business_hours_id)),
          timezone |-> settings.timezone]

\* C12: when the conversation store's ApplySLA applies a policy to a
\* conversation, the deadlines of the inserted row are those computed with
\* the calendar and timezone of the conversation's assigned team when the
\* team has both, and with the app settings' otherwise.
C12_TeamCalendarUsed ==
    [][\A c \in Conversations :
          (call'.op = "ApplySLA" /\ call'.id = c /\ call'.err = "")
          => LET cal == EffectiveCalendar(conv[c].assigned_team_id)
                 policy == SLAPolicyTable[call'.args.policyID]
             IN  /\ applied'[c].present
                 /\ applied'[c].first_response_deadline_at =
                        calculateDeadline(now, policy.FirstResponseTime, cal.bh, cal.timezone)
                 /\ applied'[c].resolution_deadline_at =
                        calculateDeadline(now, policy.ResolutionTime, cal.bh, cal.timezone)]_vars

\* The status a request to UpdateConversationStatus names, by id or by name.
RequestedStatus(args) ==
    IF args.statusID > 0
    THEN IF args.statusID \in DOMAIN StatusNames THEN StatusNames[args.statusID] ELSE ""
    ELSE args.status

\* The step is a call of UpdateConversationStatus on conversation c.
StatusCall(c) == call'.op = "UpdateConversationStatus" /\ call'.id = c

\* C13: UpdateConversationStatus to Snoozed with an empty duration string, or
\* with one that does not parse, returns an input error, and the call leaves
\* the conversation as it was, records no activity and broadcasts nothing.
C13_SnoozeNeedsDuration ==
    [][\A c \in Conversations :
          (/\ StatusCall(c)
           /\ RequestedStatus(call'.args) = StatusSnoozed
           /\ ParseDuration(call'.args.snoozeDur).err)
          => /\ call'.err = InputError
             /\ conv' = conv
             /\ ~call'.persisted
             /\ call'.activity = <<>>
             /\ call'.broadcast = <<>>]_vars

\* A snooze was asked for with a duration that is not empty and does not
\* parse, the status store gave the status name, and the call was rejected.
C13_Witness ==
    /\ call.op = "UpdateConversationStatus"
    /\ call.args.statusID > 0
    /\ RequestedStatus(call.args) = StatusSnoozed
    /\ call.args.snoozeDur = "x"
    /\ call.err = InputError
    /\ conv[call.id].status = StatusOpen

\* C14: a successful UpdateConversationStatus to Snoozed with duration d
\* leaves snoozed_until at the instant of the call plus d.
C14_SnoozeUntilIsCallTimePlusDuration ==
    [][\A c \in Conversations :
          (/\ StatusCall(c)
           /\ RequestedStatus(call'.args) = StatusSnoozed
           /\ call'.err = "")
          => /\ conv'[c].status = StatusSnoozed
             /\ conv'[c].snoozed_until =
                    now + ParseDuration(call'.args.snoozeDur).minutes
             /\ ~ParseDuration(call'.args.snoozeDur).err]_vars

\* A conversation was snoozed for "2m" after the clock had advanced.
C14_Witness ==
    /\ call.op = "UpdateConversationStatus"
    /\ call.err = ""
    /\ call.args.snoozeDur = "2m"
    /\ now > 1
    /\ conv[call.id].status = StatusSnoozed
    /\ conv[call.id].snoozed_until = now + 2

\* C15: a conversation whose status is not Snoozed has no snooze instant
\* stored, whatever status changes were made and whatever duration came
\* with them.
C15_NoSnoozeUnlessSnoozed ==
    \A c \in Conversations :
        conv[c].status # StatusSnoozed => conv[c].snoozed_until = 0

\* A snoozed conversation was given a status other than Snoozed by a call
\* that also carried a duration, and its snooze instant is cleared.
C15_Witness ==
    /\ call.op = "UpdateConversationStatus"
    /\ call.err = ""
    /\ call.args.from = StatusSnoozed
    /\ call.args.snoozeDur = "1m"
    /\ conv[call.id].status = StatusResolved
    /\ conv[call.id].snoozed_until = 0

\* The transitions of the conversation status the specification allows.
StatusEdges ==
    {<<StatusOpen, StatusSnoozed>>, <<StatusOpen, StatusResolved>>,
     <<StatusOpen, StatusClosed>>, <<StatusSnoozed, StatusOpen>>,
     <<StatusResolved, StatusOpen>>, <<StatusClosed, StatusOpen>>}

\* C16: every change of a conversation's status follows an edge of the
\* status machine: Open to Snoozed, Resolved or Closed, and Snoozed,
\* Resolved or Closed to Open.
C16_StatusFollowsEdges ==
    [][\A c \in Conversations :
          conv'[c].status # conv[c].status
          => <<conv[c].status, conv'[c].status>> \in StatusEdges]_vars

\* The mutators of the conversation store that take the acting user, and
\* the two that do not.
ActorMutators ==
    {"UpdateConversationUserAssignee", "UpdateConversationTeamAssignee",
     "UpdateConversationPriority", "UpdateConversationStatus"}
PlainMutators == {"UpdateConversationAssigneeLastSeen", "UpdateConversationFirstReplyAt"}

\* The call persisted its change, recorded one activity entry attributed to
\* the acting user and broadcast one property update.
PersistedRecordedBroadcast(cl, actor) ==
    /\ cl.persisted
    /\ Len(cl.activity) = 1
    /\ cl.activity[1].actor = actor
    /\ Len(cl.broadcast) = 1

\* The property a mutator changes, with the value the conversation cv has
\* for it.
ChangedProperty(op, cv) ==
    CASE op = "UpdateConversationUserAssignee" -> Update("assigned_user_id", cv.assigned_user_id)
      [] op = "UpdateConversationTeamAssignee" -> Update("assigned_team_id", cv.assigned_team_id)
      [] op = "UpdateConversationPriority" -> Update("priority", cv.priority)
      [] op = "UpdateConversationStatus" -> Update("status", cv.status)

C18_AssignmentIndependentOfEmail ==
    [][\A c \in Conversations :
          (/\ call'.op = "UpdateConversationUserAssignee"
           /\ call'.id = c
           /\ call'.mail = "failed")
          => /\ conv'[c].assigned_user_id = call'.args.assigneeID
             /\ call'.persisted
             /\ errs' = errs
                  => /\ call'.err = ""
                     /\ call'.activity =
                           <<Activity("assigned_user", call'.args.assigneeID,
                                      call'.args.actor)>>]_vars

\* The notifier was tried and failed, and the assignment succeeded.
C18_Witness ==
    /\ call.op = "UpdateConversationUserAssignee"
    /\ call.mail = "failed"
    /\ call.sends = 1
    /\ call.err = ""
    /\ Len(call.activity) = 1
    /\ conv[call.id].assigned_user_id = call.args.assigneeID

\* The assign-user action whose first value is the numeral of agent n.
AssignUserAction(n) == [Type |-> ActionAssignUser, Value |-> <<Numerals[n]>>]

\* C19: ApplyAction with an assign-user action whose first value is the id
\* of agent n, called with the zero user, acts as the system user.  With no
\* failing statement or collaborator it succeeds, assigns n, records
\* exactly one activity entry attributed to the system user and makes
\* exactly one notification send; and every such call that is served and
\* succeeds has looked the system user up once, assigned n and recorded
\* that one entry, with one send when the email went out.
C19_ZeroActorActsAsSystemUser ==
    [][\A c \in Conversations : \A n \in Agents :
        /\ LET r == ApplyActionResult(AssignUserAction(n), c, 0, {})
           IN  /\ r.call.err = ""
               /\ r.conv[c].assigned_user_id = n
               /\ r.call.activity = <<Activity("assigned_user", n, SystemUserID)>>
               /\ r.call.sends = 1
               /\ r.call.lookups = 1
        /\ (/\ call'.op = "ApplyAction"
            /\ call'.id = c
            /\ call'.args.action = AssignUserAction(n)
            /\ call'.args.user = 0
            /\ call'.err = "")
           => /\ conv'[c].assigned_user_id = n
              /\ call'.activity = <<Activity("assigned_user", n, SystemUserID)>>
              /\ call'.lookups = 1
              /\ call'.sends <= 1
              /\ call'.mail = "sent" => call'.sends = 1]_vars

\* The zero user had agent 3 assigned to a conversation that agent 2 held,
\* the email went out and the entry is the system user's.
C19_Witness ==
    /\ call.op = "ApplyAction"
    /\ call.args.action = AssignUserAction(3)
    /\ call.args.user = 0
    /\ call.err = ""
    /\ call.mail = "sent"
    /\ call.sends = 1
    /\ Len(call.activity) = 1
    /\ call.activity[1].actor = SystemUserID
    /\ conv[call.id].assigned_user_id = 3

\* C20: ApplyAction with an empty value list returns an error, for every
\* action type, known or not, and every user, and the call changes no
\* conversation and no AppliedSLA row, executes no statement, records no
\* activity, broadcasts nothing, sends nothing and does not look the system
\* user up.
C20_NoValueNoEffect ==
    [][(call'.op = "ApplyAction" /\ Len(call'.args.action.Value) = 0)
       => /\ call'.err # ""
          /\ conv' = conv
          /\ applied' = applied
          /\ errs' = errs
          /\ ~call'.persisted
          /\ call'.activity = <<>>
          /\ call'.broadcast = <<>>
          /\ call'.sends = 0
          /\ call'.lookups = 0]_vars

\* An assign-user action with no value was refused for the zero user, on a
\* conversation that has an assigned user.
C20_Witness ==
    /\ call.op = "ApplyAction"
    /\ call.args.action.Type = ActionAssignUser
    /\ Len(call.args.action.Value) = 0
    /\ call.args.user = 0
    /\ call.err # ""
    /\ call.lookups = 0
    /\ conv[call.id].assigned_user_id # 0

\* The failures a call of ApplyAction with this action can meet.
ActionFailSets(action) ==
    FailSets(ActionStatements(action.Type) \cup ActionCollaborators(action.Type),
             IF action.Type = ActionAssignUser THEN EmailCollaborators ELSE {})

\* C21: in every state in which a call can be served, ApplyAction with an
\* action type outside the eight known ones returns an error naming the
\* type and leaves the conversation
\* and the AppliedSLA rows as they were; and whenever the mutator called
\* for a known type returns an error, ApplyAction returns an error that
\* names the type and wraps the mutator's error.
C21_ErrorsNameTheActionType ==
    call.op = "none" =>
    \A c \in FocusConv : \A action \in Actions : \A user \in ActingUsers :
      \A fail \in ActionFailSets(action) :
        LET r == ApplyActionResult(action, c, user, fail)
            m == Dispatch(action, c, ActingUser(user, SystemUserID), fail)
        IN  /\ action.Type \notin ActionTypes
               => /\ r.call.err # ""
                  /\ r.call.names = action.Type
                  /\ r.conv = conv
                  /\ r.applied = applied
                  /\ ~r.call.persisted
            /\ (/\ action.Type \in ActionTypes
                /\ Len(action.Value) > 0
                /\ ~(user = 0 /\ "GetSystemUser" \in fail)
                /\ m.call.err # "")
               => /\ r.call.err # ""
                  /\ r.call.names = action.Type
                  /\ r.call.wraps = m.call.err

\* An action of an unknown type with a value was refused for an agent, and
\* the error names the type.
C21_Witness ==
    /\ call.op = "ApplyAction"
    /\ call.args.action.Type = "unknown"
    /\ Len(call.args.action.Value) > 0
    /\ call.args.user # 0
    /\ call.err # ""
    /\ call.names = "unknown"
    /\ call.wraps = ""

\* A set-priority action failed in its mutator with an input error (the
\* priority id is unknown), and ApplyAction's error wraps it.
C21_WitnessWrapped ==
    /\ call.op = "ApplyAction"
    /\ call.args.action.Type = ActionSetPriority
    /\ call.err = PlainError
    /\ call.names = ActionSetPriority
    /\ call.wraps = InputError

\* The action types that change the persisted state of a conversation.
StateChangingTypes ==
    {ActionAssignTeam, ActionAssignUser, ActionSetPriority, ActionSetStatus,
     ActionSetSLA, ActionSetTags}

\* C22: every change of a conversation or of its AppliedSLA row made by a
\* successful ApplyAction of a state-changing type comes with one activity
\* entry attributed to the acting user.
C22_EveryActionAudited ==
    [][(/\ call'.op = "ApplyAction"
        /\ call'.args.action.Type \in StateChangingTypes
        /\ call'.err = ""
        /\ (conv' # conv \/ applied' # applied))
       => /\ Len(call'.activity) = 1
          /\ call'.activity[1].actor = ActingUser(call'.args.user, SystemUserID)]_vars

\* The list request of this step is invalid in its page size, its page or
\* its list types.
InvalidListRequest(args) ==
    \/ args.pageSize > conversationsListMaxPageSize
    \/ args.pageSize < 1
    \/ args.page < 1
    \/ Len(args.listTypes) = 0
    \/ \E i \in DOMAIN args.listTypes : args.listTypes[i] \notin ListTypes

\* C23: a conversation list request with a page size above 100 or below 1,
\* a page below 1, no list type or an unknown list type returns an error,
\* and has begun no transaction and run no query.
C23_InvalidListRejectedBeforeQuery ==
    [][(call'.op = "GetConversations" /\ InvalidListRequest(call'.args))
       => /\ call'.err # ""
          /\ call'.tx = 0
          /\ call'.selects = 0
          /\ errs' = errs]_vars

\* A request for page size 0 with valid page and list types was refused.
C23_Witness ==
    /\ call.op = "GetConversations"
    /\ call.args.pageSize = 0
    /\ call.args.page = 1
    /\ call.args.listTypes = <<AllConversations>>
    /\ call.err # ""
    /\ call.tx = 0

\* C24: a list request rejected for its page size, its page, an unknown
\* list type or an unknown filter field returns an input error whose
\* message says what was wrong.
C24_InvalidListIsInputError ==
    [][(/\ call'.op = "GetConversations"
        /\ \/ InvalidListRequest(call'.args)
           \/ BuildPaginatedQuery(call'.args.filter) # "")
       => /\ call'.err = InputError
          /\ call'.msg \in {InvalidPageSizeMsg, InvalidPageMsg, NoListTypesMsg,
                             UnknownListTypeMsg, InvalidFilterMsg}]_vars

\* The incoming pipeline is at rest: nothing queued, every worker idle.
InboundQuiescent ==
    /\ incomingMessageQueue = <<>>
    /\ \A w \in IncomingWorkers : inWorker[w].pc = "idle"

\* C25: no dedup key (inbox id, source id) ever has more than one Message
\* row, and once every delivery has been processed each key that was
\* delivered has exactly one, however often it was delivered and whichever
\* workers processed the deliveries.
C25_ExactlyOneRowPerKey ==
    \A k \in DedupKeys :
        /\ messages[k] <= 1
        /\ (InboundQuiescent /\ delivered[k] > 0) => messages[k] = 1

\* C26: an inbound message is discarded as a duplicate only when a message
\* with the same inbox id and the same source id is persisted.
C26_DedupKeyIsPair ==
    [][\A w \in IncomingWorkers :
          (inWorker[w].pc = "check" /\ inWorker'[w].pc = "idle")
          => messages[<<inWorker[w].inbox, inWorker[w].source>>] > 0]_vars

\* The ids the outgoing workers are sending.
Sending == {outWorker[w].id : w \in {x \in OutgoingWorkers : outWorker[x].pc = "send"}}

\* C27: no two outgoing workers are sending the same message at the same
\* time, and the in-flight set holds exactly the ids being sent: an id is in
\* it during its one processing attempt and leaves it when the attempt
\* completes, whether the send succeeded or failed.
C27_OneAttemptInFlight ==
    /\ \A w1, w2 \in OutgoingWorkers :
          (w1 # w2 /\ outWorker[w1].pc = "send" /\ outWorker[w2].pc = "send")
          => outWorker[w1].id # outWorker[w2].id
    /\ outgoingProcessingMessages = Sending

\* C27 witness: a worker is sending a message that is at the head of the
\* queue once more while another worker is idle, and an earlier attempt on
\* another message has failed and left the in-flight set.
C27_Witness ==
    \E w1, w2 \in OutgoingWorkers : \E m1, m2 \in MsgIds :
        /\ w1 # w2 /\ m1 # m2
        /\ outWorker[w1].pc = "send" /\ outWorker[w1].id = m1
        /\ outWorker[w2].pc = "idle"
        /\ Len(outgoingMessageQueue) > 0 /\ Head(outgoingMessageQueue) = m1
        /\ outStatus[m2] = "failed" /\ m2 \notin outgoingProcessingMessages

\* The open clock units in [from, to) of a calendar and timezone.
OpenBetween(from, to, businessHrs, timezone) ==
    Cardinality({u \in from..(to - 1) : IsOpen(u, businessHrs, timezone)})

\* C28: for a calendar that is not always open, the deadline for N minutes
\* is not before the start, the open time between the start and the
\* deadline sums to exactly N, and the deadline is the instant at which the
\* N-th open minute ends (the time just before it is open).
C28_DeadlineConsumesOnlyOpenTime ==
    LET d == call.deadline IN
    (call.op = "CalculateDeadline" /\ ~d.bh.IsAlwaysOpen) =>
        /\ d.at >= d.start
        /\ OpenBetween(d.start, d.at, d.bh, d.timezone) = d.minutes
        /\ d.minutes > 0 => IsOpen(d.at - 1, d.bh, d.timezone)

\* C28 witness: in the working week, two minutes from the last open unit
\* before the closure end one unit into the next open window, five units
\* later (the closure of three is not consumed).
C28_Witness ==
    /\ call.op = "CalculateDeadline"
    /\ call.deadline.bh = WorkWeek
    /\ call.deadline.minutes = 2
    /\ IsOpen(call.deadline.start, WorkWeek, call.deadline.timezone)
    /\ ~IsOpen(call.deadline.start + 1, WorkWeek, call.deadline.timezone)
    /\ call.deadline.at = call.deadline.start + 5

\* The step is a metric update that failed.
MetricCheckFailed == lastOp'.op \in {"breach", "met"} /\ ~lastOp'.ok

\* What holds of every evaluation up to the recomputation of the next
\* deadline: a metric check that did not fail is followed by the next
\* statement of the evaluation, whatever it did to the metric.
MetricsThenNextDeadline ==
    /\ (runPc = "checkFR" /\ runPc' # runPc /\ ~MetricCheckFailed)
       => runPc' = "checkRes"
    /\ (runPc = "checkRes" /\ runPc' # runPc /\ ~MetricCheckFailed)
       => runPc' = "setNext"
    /\ (runPc = "setNext" /\ runPc' # runPc)
       => lastOp'.op = "set-next-sla-deadline"

\* The status refresh is the last statement of the evaluation and sets the
\* status the row's metrics give.
StatusRefreshed ==
    (runPc = "updStatus" /\ runPc' # runPc) =>
        /\ lastOp'.op = "update-sla-status"
        /\ lastOp'.ok => applied'[batch[idx].id].status = SLAStatus(applied[batch[idx].id])
        /\ idx' = idx + 1

\* C29 as stated: in every evaluation whose metric checks did not fail the
\* next deadline is recomputed after the metric checks and the status
\* refresh follows the recomputation.
C29_DeadlineThenStatusAlways ==
    [][/\ MetricsThenNextDeadline
       /\ (runPc = "setNext" /\ runPc' # runPc) => runPc' = "updStatus"
       /\ StatusRefreshed]_vars

\* C29 amended: the next deadline is recomputed after the metric checks and
\* the status refresh follows it when the recomputation succeeded; when it
\* failed the evaluation ends there, with the row's status left as it was.
C29_DeadlineThenStatus ==
    [][/\ MetricsThenNextDeadline
       /\ (runPc = "setNext" /\ runPc' # runPc) =>
             IF lastOp'.ok THEN runPc' = "updStatus"
             ELSE /\ runPc' = "loop" /\ idx' = idx + 1
                  /\ applied' = applied
       /\ StatusRefreshed]_vars

\* C29 witness: an evaluation in which neither metric changed has refreshed
\* the status.
C29_Witness ==
    /\ lastOp.op = "update-sla-status" /\ lastOp.ok
    /\ \E c \in Conversations :
         /\ c = lastOp.id /\ applied[c].present
         /\ ~Valid(applied[c].first_response_met_at)
         /\ ~Valid(applied[c].first_response_breached_at)
         /\ ~Valid(applied[c].resolution_met_at)
         /\ ~Valid(applied[c].resolution_breached_at)

\* C29, second case: the recomputation failed and the evaluation ended.
C29_WitnessFailed ==
    /\ lastOp.op = "set-next-sla-deadline" /\ ~lastOp.ok
    /\ runPc = "loop"

\* The terminal timestamps of one metric of a row.
Stamps(row, type) ==
    IF type = SLATypeFirstResponse
    THEN [met |-> row.first_response_met_at, breached |-> row.first_response_breached_at]
    ELSE [met |-> row.resolution_met_at, breached |-> row.resolution_breached_at]

\* C30: no metric of a row ever has both met_at and breached_at set; a step
\* of an evaluation changes the timestamps of the one metric it updates
\* only, issues the update only while both timestamps of that metric are
\* unset, and a successful update sets exactly one of them.
C30_OneTerminalTimestamp ==
    [][\A c \in Conversations : \A type \in {SLATypeFirstResponse, SLATypeResolution} :
          LET before == Stamps(applied[c], type)
              after == Stamps(applied'[c], type)
              updated == /\ lastOp'.op \in {"breach", "met"}
                         /\ lastOp'.id = c /\ lastOp'.type = type
          IN /\ ~(Valid(after.met) /\ Valid(after.breached))
             /\ (InEvaluate(runPc) /\ after # before) => updated /\ lastOp'.ok
             /\ updated =>
                   /\ ~Valid(before.met) /\ ~Valid(before.breached)
                   /\ lastOp'.ok =>
                         IF lastOp'.op = "met"
                         THEN Valid(after.met) /\ ~Valid(after.breached)
                         ELSE Valid(after.breached) /\ ~Valid(after.met)]_vars

\* C30 witness: an evaluation has ended with one metric of the row met and
\* the other breached, each with its other timestamp unset.
C30_Witness ==
    \E c \in Conversations :
        /\ applied[c].present
        /\ Valid(applied[c].first_response_met_at)
        /\ ~Valid(applied[c].first_response_breached_at)
        /\ Valid(applied[c].resolution_breached_at)
        /\ ~Valid(applied[c].resolution_met_at)
        /\ lastOp.op = "update-sla-status" /\ lastOp.id = c

\* C31: when the sweep checks a pending, tracked metric that has no
\* completion timestamp in the fetched row while the clock is at or before
\* the deadline, it issues no update and the metric's timestamps stay
\* unset; and no breach update is ever issued for a metric unless the clock
\* is past its deadline.
C31_NotBreachedBeforeDeadline ==
    [][\A type \in SLATypes :
          /\ (/\ runPc = PcOf(type)
              /\ SweepStep
              /\ MetAt(batch[idx], type) = 0
              /\ BreachedAt(batch[idx], type) = 0
              /\ Deadline(batch[idx], type) # 0
              /\ CompletedAt(batch[idx], type) = 0
              /\ now <= Deadline(batch[idx], type))
             => LET id == batch[idx].id
                IN /\ lastOp' = NoOp
                   /\ MetAt(applied'[id], type) = MetAt(applied[id], type)
                   /\ BreachedAt(applied'[id], type) = BreachedAt(applied[id], type)
          /\ (runPc = PcOf(type) /\ SweepStep
              /\ IssuedNext("breach", batch[idx].id, type))
             => now > Deadline(batch[idx], type)]_vars

\* C31's case: the sweep has gone past the first-response check of a row
\* whose first response is tracked and pending, with no reply and the clock
\* not past the deadline, and has left the metric as it was.
C31_Witness ==
    /\ runPc = "checkRes"
    /\ batch[idx].first_response_deadline_at # 0
    /\ now <= batch[idx].first_response_deadline_at
    /\ batch[idx].conversation_first_response_at = 0
    /\ batch[idx].first_response_met_at = 0
    /\ batch[idx].first_response_breached_at = 0
    /\ applied[batch[idx].id].first_response_met_at = 0
    /\ applied[batch[idx].id].first_response_breached_at = 0

\* C32: a call of the SLA manager's ApplySLA that returns an error has
\* persisted no AppliedSLA row; a call that persisted a row returns no error.
C32_ErrorMeansNoRow ==
    (call.op = "sla.ApplySLA" /\ call.err # "") => ~call.persisted

\* C33: for every team (or none) and every configuration, the calendar and
\* the timezone getBusinessHoursAndTimezone resolves are both the team's
\* when the team has both and both the app settings' otherwise, and the
\* resolution succeeds whenever one of the two tiers gives both; a row
\* inserted by Manager.ApplySLA has the deadlines of a policy computed with
\* that pair.
C33_CalendarAndTimezoneSameTier ==
    [][\A t \in {0} \cup Teams :
          LET r == getBusinessHoursAndTimezone(t, {})
              cal == EffectiveCalendar(t)
          IN /\ (TeamYields(t) \/ AppYields) => r.err = ""
             /\ r.err = "" => /\ r.bh = cal.bh
                              /\ r.timezone = cal.timezone
             /\ (call'.op = "sla.ApplySLA" /\ call'.team = t /\ call'.err = "")
                => \E p \in DOMAIN SLAPolicyTable :
                      /\ applied'[call'.id].first_response_deadline_at =
                            calculateDeadline(now, SLAPolicyTable[p].FirstResponseTime,
                                              cal.bh, cal.timezone)
                      /\ applied'[call'.id].resolution_deadline_at =
                            calculateDeadline(now, SLAPolicyTable[p].ResolutionTime,
                                              cal.bh, cal.timezone)]_vars

\* C33's case: a policy was applied with a team that names a calendar but no
\* timezone, under app settings that name another calendar and a timezone.
C33_Witness ==
    /\ call.op = "sla.ApplySLA"
    /\ call.team \in Teams
    /\ teams[call.team].BusinessHoursID = 2
    /\ teams[call.team].Timezone = ""
    /\ settings.business_hours_id = "1"
    /\ settings.timezone = "UTC+1"
    /\ call.err = ""
    /\ call.persisted

\* The names the priority store and the status store have records for.
KnownPriorities == {PriorityNames[n] : n \in DOMAIN PriorityNames}
KnownStatuses == {StatusNames[n] : n \in DOMAIN StatusNames}

\* C34: an ApplyAction of type set-priority or set-status, whatever its
\* value strings, leaves the conversation's priority and status as they
\* were or sets them to the name of a record of the priority or status
\* store.
C34_OnlyKnownPriorityAndStatus ==
    [][\A c \in Conversations :
          (/\ call'.op = "ApplyAction" /\ call'.id = c
           /\ call'.args.action.Type \in {ActionSetPriority, ActionSetStatus})
          => /\ conv'[c].priority = conv[c].priority
                \/ conv'[c].priority \in KnownPriorities
             /\ conv'[c].status = conv[c].status
                \/ conv'[c].status \in KnownStatuses]_vars

\* The step is an ApplyAction of type set-status on conversation c whose
\* first value is the id of the snoozed status.
SnoozeAction(c) ==
    /\ call'.op = "ApplyAction" /\ call'.id = c
    /\ call'.args.action.Type = ActionSetStatus
    /\ Len(call'.args.action.Value) > 0
    /\ Atoi(call'.args.action.Value[1]) \in DOMAIN StatusNames
    /\ StatusNames[Atoi(call'.args.action.Value[1])] = StatusSnoozed

\* C35: an ApplyAction of type set-status with the id of the snoozed status
\* fails, with an error naming the action type that wraps the input error
\* of UpdateConversationStatus whenever an acting user was given, and
\* leaves the conversation as it was (status and snoozed_until included),
\* with nothing persisted or recorded; no ApplyAction moves a conversation
\* into snoozed.
C35_ExecutorNeverSnoozes ==
    [][\A c \in Conversations :
          /\ SnoozeAction(c)
             => /\ call'.err = PlainError
                /\ call'.names = ActionSetStatus
                /\ call'.args.user # 0 => call'.wraps = InputError
                /\ conv' = conv
                /\ ~call'.persisted
                /\ call'.activity = <<>>
          /\ (call'.op = "ApplyAction" /\ call'.id = c
              /\ conv'[c].status = StatusSnoozed)
             => conv[c].status = StatusSnoozed]_vars

\* C35's case: the executor was asked to snooze an open conversation for an
\* agent and returned the wrapped input error, the conversation still open.
C35_Witness ==
    /\ call.op = "ApplyAction"
    /\ call.args.action = [Type |-> ActionSetStatus, Value |-> <<"2">>]
    /\ call.args.user # 0
    /\ call.wraps = InputError
    /\ conv[call.id].status = StatusOpen
    /\ conv[call.id].snoozed_until = 0

\* The mutators of a conversation's status, priority and assignee.
AllOrNothingMutators ==
    {"UpdateConversationStatus", "UpdateConversationPriority",
     "UpdateConversationUserAssignee", "UpdateConversationTeamAssignee"}

\* C36: a call of UpdateConversationStatus, UpdateConversationPriority,
\* UpdateConversationUserAssignee or UpdateConversationTeamAssignee that
\* returns an error leaves the conversation's status, priority and
\* assignee as they were before the call.
C36_MutatorErrorMeansNoChange ==
    [][\A c \in Conversations :
          (call'.op \in AllOrNothingMutators /\ call'.id = c /\ call'.err # "")
          => /\ conv'[c].status = conv[c].status
             /\ conv'[c].priority = conv[c].priority
             /\ conv'[c].assigned_user_id = conv[c].assigned_user_id
             /\ conv'[c].assigned_team_id = conv[c].assigned_team_id]_vars

\* The value the conversation cv holds for the property prop.
PropertyOf(cv, prop) ==
    CASE prop = "assigned_user_id" -> cv.assigned_user_id
      [] prop = "assigned_team_id" -> cv.assigned_team_id
      [] prop = "priority" -> cv.priority
      [] prop = "status" -> cv.status
      [] prop = "first_reply_at" -> cv.first_reply_at
      [] prop = "assignee_last_seen_at" -> cv.assignee_last_seen_at

\* C37: a mutator of the assignee, the priority, the status, the first reply
\* or the assignee's last-seen instant broadcasts a property only when its
\* statement persisted the change, and the value it broadcasts is the value
\* stored; the first-reply update broadcasts only when the conversation had
\* no first reply and the statement set it.
C37_BroadcastOnlyAfterPersist ==
    [][\A c \in Conversations :
          (/\ call'.op \in ActorMutators \cup PlainMutators \cup {"UpdateAssignee"}
           /\ call'.id = c
           /\ call'.broadcast # <<>>)
          => /\ call'.persisted
             /\ \A i \in 1..Len(call'.broadcast) :
                    call'.broadcast[i].value = PropertyOf(conv'[c], call'.broadcast[i].prop)
             /\ call'.op = "UpdateConversationFirstReplyAt"
                    => /\ conv[c].first_reply_at = 0
                       /\ conv'[c].first_reply_at = call'.args.at]_vars

\* A first-reply update of a conversation that already had a first reply
\* succeeded, changed no row and broadcast nothing.
C37_Witness ==
    /\ call.op = "UpdateConversationFirstReplyAt"
    /\ call.err = ""
    /\ conv[call.id].first_reply_at # 0
    /\ ~call.persisted
    /\ call.broadcast = <<>>

\* The persisting statement of a mutator failed and nothing was broadcast.
C37_WitnessFailed ==
    /\ call.op \in ActorMutators \cup PlainMutators
    /\ call.err # ""
    /\ ~call.persisted
    /\ call.broadcast = <<>>

\* C38: when the query of GetConversations was made and the transaction
\* could not be started, the call returns a general error with the
\* "error fetching" message and issues no select.
C38_BeginFailureIsGeneralError ==
    [][(/\ call'.op = "GetConversations"
        /\ makeConversationsListQuery(call'.args.listTypes, call'.args.page,
                                      call'.args.pageSize, call'.args.filter) = ""
        /\ call'.tx = 0)
       => /\ call'.err = GeneralError
          /\ call'.msg = ErrorFetchingMsg
          /\ call'.selects = 0]_vars

\* C39: with an always-open calendar the deadline of a policy's duration
\* string is the start time plus the duration the string parses to, also
\* when the duration is not a whole number of minutes (instants are in
\* minutes, durations in seconds).
C39_DeadlineIsStartPlusDuration ==
    (/\ call.op = "calculateDeadline"
     /\ call.deadline.bh.IsAlwaysOpen
     /\ call.args.durationStr # <<>>)
    => 60 * call.deadline.at
         = 60 * call.deadline.start + PolicyDuration(call.args.durationStr)
====
